---------------------------- MODULE Spec2Model ----------------------------
(***************************************************************************)
(* Model of the Atria University academic management tool (src/app.py):    *)
(* the wide-to-long reshaper of process_and_sync, the two composite-key    *)
(* upsert clients (update_or_create of the Course Details and of the       *)
(* Student Details page), the two synchronization drivers that call them   *)
(* row by row, and the NocoDB table store they talk to.                    *)
(*                                                                         *)
(* Strings that the code takes apart (column names) are sequences of       *)
(* one-character strings; strings that the code only compares or prints    *)
(* (cell values, dict keys) are TLA+ strings.                              *)
(***************************************************************************)
EXTENDS Integers, Sequences, FiniteSets, TLC

Range(f) == {f[x] : x \in DOMAIN f}

(***************************************************************************)
(* Python values as pandas hands them to the code: a cell parsed from CSV  *)
(* is NaN, an int, a float (n.d, one decimal digit is enough here) or a    *)
(* str.  One record shape for all, so that any two values can be compared. *)
(***************************************************************************)
None == [t |-> "none", n |-> 0, d |-> 0, s |-> ""]
PyInt(n) == [t |-> "int", n |-> n, d |-> 0, s |-> ""]
PyFloat(n, d) == [t |-> "float", n |-> n, d |-> d, s |-> ""]
PyStr(s) == [t |-> "str", n |-> 0, d |-> 0, s |-> s]

isna(v) == v.t = "none"

\* str(value): the text Python prints for the value
str(v) ==
    CASE v.t = "str" -> v.s
      [] v.t = "int" -> ToString(v.n)
      [] v.t = "float" -> ToString(v.n) \o "." \o ToString(v.d)
      [] OTHER -> "None"

\* int(value): identity on an int, truncation of a float
int(v) == PyInt(v.n)

\* isinstance(value, float)
isfloat(v) == v.t = "float"

\* numpy's cast of an int64 cell to float64
AsFloat(v) == IF v.t = "int" THEN PyFloat(v.n, 0) ELSE v

(***************************************************************************)
(* Column names, spelled out.                                              *)
(***************************************************************************)
c_REGN_NO == <<"R","E","G","N","_","N","O">>
c_SUBJECT_NAME == <<"S","U","B","J","E","C","T","_","N","A","M","E">>
c_TH_MRKS == <<"T","H","_","M","R","K","S">>
c_CE_MRKS == <<"C","E","_","M","R","K","S">>
c_TOT == <<"T","O","T">>
c_GRADE == <<"G","R","A","D","E">>
c_GRADE_POINTS == <<"G","R","A","D","E","_","P","O","I","N","T","S">>
c_CREDIT == <<"C","R","E","D","I","T">>
c_CREDIT_POINTS == <<"C","R","E","D","I","T","_","P","O","I","N","T","S">>
c_TYPE == <<"T","Y","P","E">>
c_RESULT == <<"R","E","S","U","L","T">>
c_SUBJECT_ACTUAL_CODE == <<"S","U","B","J","E","C","T","_","A","C","T","U","A","L","_","C","O","D","E">>
c_MONTH_YEAR_COMPLETION == <<"M","O","N","T","H","_","Y","E","A","R","_","C","O","M","P","L","E","T","I","O","N">>
c_YEAR_COMPLETION == <<"Y","E","A","R","_","C","O","M","P","L","E","T","I","O","N">>
c_MONTH_COMPLETION_IN_NUMBER == <<"M","O","N","T","H","_","C","O","M","P","L","E","T","I","O","N","_","I","N","_","N","U","M","B","E","R">>
c_Subject_Number == <<"S","u","b","j","e","c","t","_","N","u","m","b","e","r">>
c_Marks == <<"M","a","r","k","s">>
c_Grade == <<"G","r","a","d","e">>
c_SUBJECT_CODE == <<"S","U","B","J","E","C","T","_","C","O","D","E">>
c_Month_Year_Completion == <<"M","o","n","t","h","_","Y","e","a","r","_","C","o","m","p","l","e","t","i","o","n">>
c_Academic_Year == <<"A","c","a","d","e","m","i","c","_","Y","e","a","r">>
c_Academic_Month == <<"A","c","a","d","e","m","i","c","_","M","o","n","t","h">>
c_YEAR_FLAG == <<"Y","E","A","R","_","F","L","A","G">>
c_ADMISSION_YEAR == <<"A","D","M","I","S","S","I","O","N","_","Y","E","A","R">>
c_YEAR == <<"Y","E","A","R">>
c_GLOBAL == <<"_","G","L","O","B","A","L">>
c_SUB == <<"S","U","B">>
c_NM == <<"N","M">>
c_NAME == <<"N","A","M","E">>
c_consolidated_grade_card_flag == <<"c","o","n","s","o","l","i","d","a","t","e","d","_","g","r","a","d","e","_","c","a","r","d","_","f","l","a","g">>
c_CGPA == <<"C","G","P","A">>
c_SESSION == <<"S","E","S","S","I","O","N">>
c_YEAR_OF_COMPLETION == <<"Y","E","A","R","_","O","F","_","C","O","M","P","L","E","T","I","O","N">>
c_Cumulative_credits == <<"C","u","m","u","l","a","t","i","v","e"," ","c","r","e","d","i","t","s">>
c_CUMULATIVE_CREDITS == <<"C","U","M","U","L","A","T","I","V","E","_","C","R","E","D","I","T","S">>

(***************************************************************************)
(* Python string operations on spelled-out names.                          *)
(***************************************************************************)
DigitChars == {"0","1","2","3","4","5","6","7","8","9"}

\* s.startswith(p)
startswith(s, p) == Len(s) >= Len(p) /\ SubSeq(s, 1, Len(p)) = p

\* s.endswith(p)
endswith(s, p) == Len(s) >= Len(p) /\ SubSeq(s, Len(s) - Len(p) + 1, Len(s)) = p

\* s.isdigit(): every character a digit and at least one character
isdigit(s) == Len(s) > 0 /\ \A k \in 1..Len(s) : s[k] \in DigitChars

\* s[k:] with Python's 0-based k
SliceFrom(s, k) == SubSeq(s, k + 1, Len(s))

\* position of the first "_" in s (1-based), 0 when there is none
FirstUnderscore(s) ==
    IF \E k \in 1..Len(s) : s[k] = "_"
    THEN CHOOSE k \in 1..Len(s) : s[k] = "_" /\ \A m \in 1..(k - 1) : s[m] # "_"
    ELSE 0

\* re.search(r'_\d+$', s): the name ends in "_" followed by digits
HasNumericSuffix(s) ==
    \E k \in 1..Len(s) : s[k] = "_" /\ isdigit(SubSeq(s, k + 1, Len(s)))

\* the spelled-out name as one string (a dict key)
RECURSIVE Concat(_)
Concat(s) == IF s = <<>> THEN "" ELSE Head(s) \o Concat(Tail(s))


(***************************************************************************)
(* A pandas DataFrame: the column names in order and the rows in order,    *)
(* each row the sequence of its cells, one per column.  Two columns may    *)
(* carry the same name (pandas allows it after a rename).                  *)
(***************************************************************************)
DataFrame(columns, data) == [columns |-> columns, data |-> data]

\* the positions of the columns named c
Positions(columns, c) == {k \in DOMAIN columns : columns[k] = c}

\* row[c]: the cell of the (first) column named c
Cell(columns, row, c) ==
    row[CHOOSE k \in Positions(columns, c) : \A m \in Positions(columns, c) : k <= m]

\* the dtype pandas gives a column holding these cells: object as soon as a
\* str is among them, float64 as soon as a float or a NaN is, int64 otherwise
dtype(cells) ==
    IF \E v \in cells : v.t = "str" THEN "object"
    ELSE IF \E v \in cells : v.t \in {"float", "none"} THEN "float64"
    ELSE "int64"

ColumnCells(df, k) == {df.data[r][k] : r \in DOMAIN df.data}

\* a cell as it sits in a column of that dtype
Cast(v, dt) == IF dt = "float64" THEN AsFloat(v) ELSE v

\* every column of the frame holding one dtype (what read_csv and melt give)
Homogeneous(df) ==
    [df EXCEPT !.data =
        [r \in DOMAIN df.data |->
            [k \in DOMAIN df.columns |-> Cast(df.data[r][k], dtype(ColumnCells(df, k)))]]]

\* df.rename(columns=mapping), the mapping given as the new name of each
\* column in turn
rename(df, names) == [df EXCEPT !.columns = names]

\* df.dropna(subset=subset): drop the rows where any of them is NaN
dropna_any(df, subset) ==
    [df EXCEPT !.data =
        SelectSeq(df.data,
                  LAMBDA row : \A k \in DOMAIN df.columns :
                                   df.columns[k] \in subset => ~isna(row[k]))]

\* the index labels (0, 1, ...) of the rows df.dropna(subset=subset,
\* inplace=True) leaves: the index is not reset
index_after_dropna(df, subset) ==
    SelectSeq([r \in DOMAIN df.data |-> r - 1],
              LAMBDA label : \A k \in DOMAIN df.columns :
                                 df.columns[k] \in subset => ~isna(df.data[label + 1][k]))

\* variant: how='all' left out, so that one NaN among them drops the row
dropna_all_how_any(df, subset) == dropna_any(df, subset)

\* df.dropna(subset=subset, how='all'): drop the rows where all of them are NaN
dropna_all(df, subset) ==
    [df EXCEPT !.data =
        SelectSeq(df.data,
                  LAMBDA row : \E k \in DOMAIN df.columns :
                                   df.columns[k] \in subset /\ ~isna(row[k]))]

\* df[c] = v: set the column on every row, appended when it is new
assign(df, c, v) ==
    IF c \in Range(df.columns)
    THEN [df EXCEPT !.data =
            [r \in DOMAIN df.data |->
                [k \in DOMAIN df.columns |->
                    IF df.columns[k] = c THEN v ELSE df.data[r][k]]]]
    ELSE DataFrame(Append(df.columns, c),
                   [r \in DOMAIN df.data |-> Append(df.data[r], v)])

\* df.drop(columns=[c])
drop(df, c) ==
    LET keep == SelectSeq([k \in DOMAIN df.columns |-> k], LAMBDA k : df.columns[k] # c)
    IN  DataFrame([m \in DOMAIN keep |-> df.columns[keep[m]]],
                  [r \in DOMAIN df.data |-> [m \in DOMAIN keep |-> df.data[r][keep[m]]]])

\* the row Series that iterrows yields: one dtype for the whole row, the
\* common dtype of the frame's columns
iterrows(df) ==
    LET dts == {dtype(ColumnCells(df, k)) : k \in DOMAIN df.columns}
        common == IF "object" \in dts THEN "object"
                  ELSE IF "float64" \in dts THEN "float64" ELSE "int64"
    IN  [r \in DOMAIN df.data |->
            [k \in DOMAIN df.columns |-> Cast(df.data[r][k], common)]]

\* row.dropna().to_dict(): the non-NaN cells keyed by column name; of two
\* cells under one name the later one stays in the dict
to_dict(columns, row) ==
    LET keep == {k \in DOMAIN columns : ~isna(row[k])}
    IN  [key \in {Concat(columns[k]) : k \in keep} |->
            row[CHOOSE k \in keep :
                    /\ Concat(columns[k]) = key
                    /\ \A m \in keep : Concat(columns[m]) = key => m <= k]]

\* record.get(key)
get(record, key) == IF key \in DOMAIN record THEN record[key] ELSE None

(***************************************************************************)
(* process_and_sync, Step 1: the new name of a column.                     *)
(***************************************************************************)
new_columns(col) ==
    IF startswith(col, c_SUB) /\ FirstUnderscore(col) > 0
    THEN LET u == FirstUnderscore(col)
             subject_num_str == SubSeq(col, 4, u - 1)
             metric_name == SubSeq(col, u + 1, Len(col))
         IN  metric_name \o <<"_">> \o subject_num_str
    ELSE IF startswith(col, c_SUB) /\ Len(col) > 3 /\ isdigit(SliceFrom(col, 3))
    THEN c_SUBJECT_ACTUAL_CODE \o <<"_">> \o SliceFrom(col, 3)
    ELSE IF /\ startswith(col, c_SUB) /\ endswith(col, c_NM)
            /\ Len(col) > 3 /\ col[4] \in DigitChars
    THEN c_SUBJECT_NAME \o <<"_">> \o SubSeq(col, 4, Len(col) - 2)
    ELSE col

\* Step 3: the declared metric stubs
stubnames ==
    << c_SUBJECT_NAME, c_TH_MRKS, c_CE_MRKS, c_TOT, c_GRADE,
       c_GRADE_POINTS, c_CREDIT, c_CREDIT_POINTS, c_TYPE, c_RESULT,
       c_SUBJECT_ACTUAL_CODE, c_MONTH_YEAR_COMPLETION, c_YEAR_COMPLETION,
       c_MONTH_COMPLETION_IN_NUMBER >>

\* Step 2: the identifier columns of the renamed frame
id_vars_of(df_renamed) ==
    LET found == SelectSeq(df_renamed.columns, LAMBDA c : ~HasNumericSuffix(c))
    IN  IF c_REGN_NO \in Range(found) THEN found ELSE <<c_REGN_NO>> \o found

\* Step 4: an identifier column named like a stub gets the suffix _GLOBAL
temp_rename_mapping_final(id_vars, col) ==
    IF col \in Range(id_vars) /\ col \in Range(stubnames) THEN col \o c_GLOBAL ELSE col

\* Step 6: the reverse of Step 4's mapping
reverse_temp_rename_mapping(id_vars, col) ==
    IF \E o \in Range(id_vars) : o \in Range(stubnames) /\ o \o c_GLOBAL = col
    THEN SubSeq(col, 1, Len(col) - Len(c_GLOBAL))
    ELSE col

\* Step 6: the business names
business_name(col) ==
    CASE col = c_TOT -> c_Marks
      [] col = c_GRADE -> c_Grade
      [] col = c_SUBJECT_ACTUAL_CODE -> c_SUBJECT_CODE
      [] col = c_MONTH_YEAR_COMPLETION -> c_Month_Year_Completion
      [] col = c_YEAR_COMPLETION -> c_Academic_Year
      [] col = c_MONTH_COMPLETION_IN_NUMBER -> c_Academic_Month
      [] OTHER -> col

(***************************************************************************)
(* pandas.wide_to_long(df, stubnames, i, j, sep='_', suffix='\d+') followed *)
(* by reset_index(): the result, or the exception it raises.               *)
(***************************************************************************)
DigitValue(ch) ==
    CASE ch = "0" -> 0 [] ch = "1" -> 1 [] ch = "2" -> 2 [] ch = "3" -> 3
      [] ch = "4" -> 4 [] ch = "5" -> 5 [] ch = "6" -> 6 [] ch = "7" -> 7
      [] ch = "8" -> 8 [] OTHER -> 9

\* pandas.to_numeric of a digit string
RECURSIVE to_numeric(_)
to_numeric(s) ==
    IF s = <<>> THEN 0
    ELSE 10 * to_numeric(SubSeq(s, 1, Len(s) - 1)) + DigitValue(s[Len(s)])

\* the suffixes in ascending numeric order
RECURSIVE SortedSuffixes(_)
SortedSuffixes(S) ==
    IF S = {} THEN <<>>
    ELSE LET m == CHOOSE x \in S : \A y \in S : to_numeric(x) <= to_numeric(y)
         IN  <<m>> \o SortedSuffixes(S \ {m})

\* get_var_names: the columns matching ^stub_\d+$
get_var_names(df, stub) ==
    {c \in Range(df.columns) :
        /\ Len(c) > Len(stub) + 1
        /\ SubSeq(c, 1, Len(stub)) = stub
        /\ c[Len(stub) + 1] = "_"
        /\ isdigit(SubSeq(c, Len(stub) + 2, Len(c)))}

\* df[i].duplicated().any()
duplicated_any(df, i) ==
    \E a, b \in DOMAIN df.data :
        a # b /\ \A c \in Range(i) :
                    Cell(df.columns, df.data[a], c) = Cell(df.columns, df.data[b], c)

Raised(exc) == [ok |-> FALSE, exc |-> exc, df |-> DataFrame(<<>>, <<>>)]
Returned(df) == [ok |-> TRUE, exc |-> "", df |-> df]

wide_to_long(df, stubs, i) ==
    LET cols == Range(df.columns)
        value_vars_flattened == UNION {get_var_names(df, st) : st \in Range(stubs)}
        suffixes == UNION {{SubSeq(c, Len(st) + 2, Len(c)) : c \in get_var_names(df, st)}
                            : st \in Range(stubs)}
        js == SortedSuffixes(suffixes)
        others == SelectSeq(df.columns,
                            LAMBDA c : c \notin value_vars_flattened /\ c \notin Range(i))
        out_columns == i \o <<c_Subject_Number>> \o others \o stubs
        cell(row, j, k) ==
            LET c == out_columns[k]
            IN  IF k = Len(i) + 1 THEN PyInt(to_numeric(j))
                ELSE IF k > Len(i) + 1 + Len(others)
                THEN IF (c \o <<"_">> \o j) \in cols
                     THEN Cell(df.columns, row, c \o <<"_">> \o j) ELSE None
                ELSE Cell(df.columns, row, c)
        nS == Len(js)
        melted ==
            [m \in 1..(Len(df.data) * nS) |->
                [k \in DOMAIN out_columns |->
                    cell(df.data[((m - 1) \div nS) + 1], js[((m - 1) % nS) + 1], k)]]
    IN  IF \E c \in cols : c \in Range(stubs)
        THEN Raised("ValueError: stubname can't be identical to a column name")
        ELSE IF \E c \in Range(i) : c \notin cols
        THEN Raised("KeyError")
        ELSE IF duplicated_any(df, i)
        THEN Raised("ValueError: the id variables need to uniquely identify each row")
        ELSE Returned(Homogeneous(DataFrame(out_columns, melted)))

(***************************************************************************)
(* process_and_sync up to the upsert loop: the frame long_df_cleaned that  *)
(* the loop iterates, or the exception that wide_to_long raised (the code  *)
(* reports it and returns).                                                *)
(***************************************************************************)
long_df_cleaned(df, year_flag, admission_year) ==
    LET df_renamed == rename(df, [k \in DOMAIN df.columns |-> new_columns(df.columns[k])])
        found == id_vars_of(df_renamed)
        id_vars == [k \in DOMAIN found |-> temp_rename_mapping_final(found, found[k])]
        df_final == rename(df_renamed,
                           [k \in DOMAIN df_renamed.columns |->
                               temp_rename_mapping_final(found, df_renamed.columns[k])])
        w == wide_to_long(df_final, stubnames, id_vars)
        long1 == drop(w.df, c_Subject_Number)
        long2 == rename(long1, [k \in DOMAIN long1.columns |-> business_name(long1.columns[k])])
        long3 == rename(long2,
                        [k \in DOMAIN long2.columns |->
                            reverse_temp_rename_mapping(found, long2.columns[k])])
        cleaned == dropna_all(long3, {c_SUBJECT_NAME, c_SUBJECT_CODE})
        flagged == assign(assign(assign(cleaned, c_YEAR_FLAG, int(year_flag)),
                                 c_ADMISSION_YEAR, int(admission_year)),
                          c_YEAR, int(admission_year))
    IN  IF w.ok THEN Returned(flagged) ELSE w

(***************************************************************************)
(* The NocoDB table store, as the upsert clients see it through its REST   *)
(* interface: per table the rows in creation order, each a JSON object     *)
(* with the store's own "Id".                                              *)
(***************************************************************************)
STUDENT_COURSES_DETAILS_TABLE == "student_courses_details"
STUDENT_DETAILS_TABLE == "student_details"
Tables == {STUDENT_COURSES_DETAILS_TABLE, STUDENT_DETAILS_TABLE}

\* GET <table>?filter=...: the rows whose fields equal every filter value,
\* compared in text form
Matches(row, filter_parts) ==
    \A k \in DOMAIN filter_parts :
        /\ filter_parts[k].key \in DOMAIN row
        /\ str(row[filter_parts[k].key]) = filter_parts[k].value

record_list(rows_of_table, filter_parts) ==
    SelectSeq(rows_of_table, LAMBDA row : Matches(row, filter_parts))

\* PATCH <table>/<record_id>: the fields of the body replace the row's
patched(rows_of_table, id, body) ==
    [k \in DOMAIN rows_of_table |->
        IF rows_of_table[k].Id = PyInt(id)
        THEN [f \in DOMAIN rows_of_table[k] \cup DOMAIN body |->
                 IF f \in DOMAIN body THEN body[f] ELSE rows_of_table[k][f]]
        ELSE rows_of_table[k]]

\* POST <table>: a new row with a fresh Id
posted(rows_of_table, id, body) ==
    Append(rows_of_table,
           [f \in DOMAIN body \cup {"Id"} |-> IF f = "Id" THEN PyInt(id) ELSE body[f]])

(***************************************************************************)
(* The upsert clients and the drivers' per-row record.                     *)
(***************************************************************************)
CoursePage == "Course Details"
StudentPage == "Student Details"

COMPOSITE_UNIQUE_KEYS(pg) ==
    IF pg = CoursePage THEN <<"REGN_NO", "YEAR_FLAG", "SUBJECT_CODE">>
    ELSE <<"REGN_NO", "YEAR_FLAG">>

\* variant: the str() coercions of the key fields left out
course_record_uncoerced(d) ==
    [k \in DOMAIN d |-> IF k = "YEAR_FLAG" THEN int(d[k]) ELSE d[k]]

\* process_and_sync: the record built from one row of long_df_cleaned
course_record(d) ==
    [k \in DOMAIN d |->
        IF k \in {"REGN_NO", "SUBJECT_CODE"} THEN PyStr(str(d[k]))
        ELSE IF k = "YEAR_FLAG" THEN int(d[k])
        ELSE d[k]]

\* process_student_details_sync: the record built from one row of df
student_record(d) ==
    [k \in DOMAIN d |->
        IF k = "REGN_NO" THEN PyStr(str(IF isfloat(d[k]) THEN int(d[k]) ELSE d[k]))
        ELSE IF k = "YEAR_FLAG" THEN int(d[k])
        ELSE d[k]]

\* variant: the "value is None" check left out
missing_key_unchecked(record, unique_keys) == FALSE

\* update_or_create: is a unique key missing from the record?
missing_key(record, unique_keys) ==
    \E k \in DOMAIN unique_keys : isna(get(record, unique_keys[k]))

\* update_or_create: the parts of the filter, `key`,eq,value
filter_parts(pg, record, unique_keys) ==
    [k \in DOMAIN unique_keys |->
        [key |-> unique_keys[k],
         value |-> IF \/ unique_keys[k] = "REGN_NO"
                      \/ (pg = CoursePage /\ unique_keys[k] = "SUBJECT_CODE")
                   THEN str(PyStr(str(get(record, unique_keys[k]))))
                   ELSE str(get(record, unique_keys[k]))]]

\* variant: a record_id only when the list holds exactly one row
record_id_of_single(list) == IF Len(list) = 1 THEN list[1].Id.n ELSE 0

\* update_or_create: record_id from the response to the lookup (0 is None)
record_id_of(list) == IF Len(list) > 0 THEN list[1].Id.n ELSE 0

(***************************************************************************)
(* process_student_details_sync up to the loop.                            *)
(***************************************************************************)
\* the check of consolidated_grade_card_flag that ends in st.stop()
validation_stops(df, consolidated_grade_card_flag) ==
    /\ consolidated_grade_card_flag = 1
    /\ \/ c_consolidated_grade_card_flag \notin Range(df.columns)
       \/ \E r \in DOMAIN df.data :
            LET v == Cell(df.columns, df.data[r], c_consolidated_grade_card_flag)
            IN  ~(v.t \in {"int", "float"} /\ v.n = 1 /\ v.d = 0)

student_rename(col) ==
    IF col = c_SESSION THEN c_YEAR_OF_COMPLETION
    ELSE IF col = c_Cumulative_credits THEN c_CUMULATIVE_CREDITS
    ELSE col

\* the frame the loop iterates: YEAR_FLAG and ADMISSION_YEAR assigned, two
\* columns renamed, the rows with a NaN key dropped
student_df(df, year_flag, admission_year) ==
    LET assigned == assign(assign(df, c_YEAR_FLAG, year_flag),
                           c_ADMISSION_YEAR, int(admission_year))
        renamed == rename(assigned,
                          [k \in DOMAIN assigned.columns |->
                              student_rename(assigned.columns[k])])
    IN  dropna_any(renamed, {c_REGN_NO, c_YEAR_FLAG})

\* the index labels of that frame
student_index(df, year_flag) ==
    index_after_dropna(assign(df, c_YEAR_FLAG, year_flag), {c_REGN_NO, c_YEAR_FLAG})

\* the dicts of the rows, in iteration order
row_dicts(df) == [k \in DOMAIN df.data |-> to_dict(df.columns, iterrows(df)[k])]

(***************************************************************************)
(* Uploaded CSV files, as read_csv parses them.                            *)
(***************************************************************************)
SUBn(k) == c_SUB \o <<ToString(k)>>
SUBnNM(k) == c_SUB \o <<ToString(k)>> \o c_NM
SUBn_(k, metric) == c_SUB \o <<ToString(k)>> \o <<"_">> \o metric

CourseColumns(n) ==
    LET RECURSIVE slots(_)
        slots(k) == IF k > n THEN <<>>
                    ELSE <<SUBn(k), SUBnNM(k), SUBn_(k, c_TOT), SUBn_(k, c_GRADE)>>
                         \o slots(k + 1)
    IN  <<c_REGN_NO>> \o slots(1)

\* the spec's example: one student, two subjects
UploadExample ==
    Homogeneous(DataFrame(CourseColumns(2),
        << << PyStr("AU21UG-001"),
              PyInt(101), PyStr("Maths"), PyInt(88), PyStr("A"),
              PyInt(102), PyStr("Physics"), PyInt(75), PyStr("B") >> >>))

\* a numeric registration number, and a second subject with a name and no code
UploadBlankCode ==
    Homogeneous(DataFrame(CourseColumns(2),
        << << PyInt(7),
              PyInt(101), PyStr("Maths"), PyInt(88), PyStr("A"),
              None, PyStr("Physics"), PyInt(75), PyStr("B") >> >>))

\* the same subject code in three slots: twice unchanged, then with new marks
UploadRepeat ==
    Homogeneous(DataFrame(CourseColumns(3),
        << << PyStr("AU1"),
              PyInt(101), PyStr("Maths"), PyInt(88), PyStr("A"),
              PyInt(101), PyStr("Maths"), PyInt(88), PyStr("A"),
              PyInt(101), PyStr("Maths"), PyInt(90), None >> >>))

\* the same student row twice
UploadDuplicateRows ==
    Homogeneous(DataFrame(CourseColumns(1),
        << << PyStr("AU1"), PyInt(101), PyStr("Maths"), PyInt(88), PyStr("A") >>,
           << PyStr("AU1"), PyInt(101), PyStr("Maths"), PyInt(88), PyStr("A") >> >>))

\* a student with no subject at all
UploadBlankSlots ==
    Homogeneous(DataFrame(CourseColumns(1),
        << << PyStr("AU1"), None, None, None, None >> >>))

\* one student with one subject
UploadOne ==
    Homogeneous(DataFrame(CourseColumns(1),
        << << PyStr("AU1"), PyInt(101), PyStr("Maths"), PyInt(88), PyStr("A") >> >>))

\* every wide table of up to MaxWideRows rows and NumSlots subject slots,
\* with the identifier columns REGN_NO and NAME: the student of a row took
\* the first t subjects, the slots past t are blank,
\* and slot t is complete, lacks its code, has nothing but its code, or has
\* marks without code and name
NumSlots == 2
MaxWideRows == 2
Identifiers ==
    {<<PyStr("AU1"), PyStr("Asha")>>, <<PyStr("AU1"), PyStr("Ravi")>>}
SlotKinds == {"complete", "no code", "code only", "marks only"}

SlotCells(k, kind) ==
    CASE kind = "complete" ->
           <<PyInt(100 + k), PyStr("Subject " \o ToString(k)), PyInt(80 + k), PyStr("A")>>
      [] kind = "no code" ->
           <<None, PyStr("Subject " \o ToString(k)), PyInt(80 + k), PyStr("A")>>
      [] kind = "code only" -> <<PyInt(100 + k), None, None, None>>
      [] kind = "marks only" -> <<None, None, PyInt(80 + k), PyStr("A")>>
      [] OTHER -> <<None, None, None, None>>

WideColumns ==
    <<c_REGN_NO, c_NAME>> \o SubSeq(CourseColumns(NumSlots), 2, Len(CourseColumns(NumSlots)))

WideRow(id, t, kind) ==
    LET RECURSIVE slots(_)
        slots(k) == IF k > NumSlots THEN <<>>
                    ELSE SlotCells(k, IF k < t THEN "complete"
                                      ELSE IF k = t THEN kind ELSE "blank")
                         \o slots(k + 1)
    IN  id \o slots(1)

WideRows ==
    {WideRow(id, 0, "blank") : id \in Identifiers}
    \cup {WideRow(id, t, kind) : id \in Identifiers, t \in 1..NumSlots, kind \in SlotKinds}

WideTables ==
    {Homogeneous(DataFrame(WideColumns, data)) :
        data \in UNION {[1..n -> WideRows] : n \in 0..MaxWideRows}}

\* a row-level RESULT column next to the RESULT of the one subject
UploadRowResult ==
    Homogeneous(DataFrame(<<c_REGN_NO, c_RESULT, SUBn(1), SUBnNM(1), SUBn_(1, c_TOT),
                            SUBn_(1, c_RESULT)>>,
        << << PyStr("AU1"), PyStr("PASS"), PyInt(101), PyStr("Maths"), PyInt(88),
              PyStr("P") >> >>))

CourseUploads ==
    {UploadExample, UploadBlankCode, UploadRepeat, UploadDuplicateRows, UploadBlankSlots,
     UploadRowResult}

\* three rows for one student: twice unchanged, then with the name changed
StudentNames ==
    Homogeneous(DataFrame(<<c_REGN_NO, c_NAME, c_CGPA>>,
        << <<PyInt(7), PyStr("Asha"), PyFloat(8, 5)>>,
           <<PyInt(7), PyStr("Asha"), PyFloat(8, 5)>>,
           <<PyInt(7), PyStr("Asha K"), None>> >>))

\* numbers only, and a row without registration number
StudentNumeric ==
    Homogeneous(DataFrame(<<c_REGN_NO, c_CGPA>>,
        << <<PyInt(7), PyFloat(8, 5)>>, <<None, PyFloat(9, 0)>> >>))

\* a consolidated file that carries its own YEAR_FLAG
StudentConsolidated ==
    Homogeneous(DataFrame(<<c_REGN_NO, c_NAME, c_consolidated_grade_card_flag, c_YEAR_FLAG>>,
        << <<PyStr("AU1"), PyStr("Asha"), PyInt(1), PyInt(3)>> >>))

\* a file whose flag column is not 1 on every row
StudentMixedFlag ==
    Homogeneous(DataFrame(<<c_REGN_NO, c_NAME, c_consolidated_grade_card_flag>>,
        << <<PyStr("AU1"), PyStr("Asha"), PyInt(1)>>,
           <<PyStr("AU2"), PyStr("Ravi"), PyInt(0)>> >>))

\* a file whose only row has no registration number
StudentNoKeys ==
    Homogeneous(DataFrame(<<c_REGN_NO, c_NAME>>, << <<None, PyStr("Asha")>> >>))

\* a file whose first row has no registration number
StudentBlankFirst ==
    Homogeneous(DataFrame(<<c_REGN_NO, c_NAME>>,
        << <<None, PyStr("Asha")>>, <<PyInt(8), PyStr("Ravi")>> >>))

StudentUploads ==
    {StudentNames, StudentNumeric, StudentConsolidated, StudentMixedFlag, StudentNoKeys,
     StudentBlankFirst}

\* the options of the YEAR_FLAG select box (a part of 1..4), the admission year
year_flag_options == {1, 2}
AdmissionYears == {2021}

(***************************************************************************)
(* State.  A session is one browser session of the tool; its handler runs  *)
(* one sync from the click on the button to the final message.  Requests   *)
(* to the store are the atomic steps: a lookup, then a write.              *)
(***************************************************************************)
NumSessions == 2
Sessions == 1..NumSessions

VARIABLES
    store,          \* table name -> rows of the table
    next_id,        \* the Id the store gives the next created row
    page,           \* session -> page of the running handler, "" before
    upload,         \* session -> the uploaded file as read_csv parsed it
    pc,             \* session -> "idle", "loop", "write", "done", "aborted"
    rows,           \* session -> the dicts of the rows the loop iterates
    i,              \* session -> number of rows the loop has finished
    total_records,  \* session -> len of the frame the loop iterates
    success_count,  \* session -> process_and_sync's success_count
    failure_count,  \* session -> process_and_sync's failure_count
    record_id,      \* session -> update_or_create's record_id (0 is None)
    log,            \* session -> per row: the record, the requests sent for
                    \*            it and their answers, the value returned
    message         \* session -> the last message shown to the user

\* the confirmation gate in front of a sync
VARIABLES
    session_state,  \* session -> the proceed_anyway keys that are True
    params,         \* session -> the tab and the inputs the sync was started with
    check_response, \* session -> how the existence check of the start was answered
    data_exists     \* session -> what that check returned

gate_vars == << session_state, params, check_response, data_exists >>

\* the progress bar of a sync
VARIABLES
    index,          \* session -> the index labels of the rows the loop iterates
    progress        \* session -> the fractions handed to progress_bar.progress

progress_vars == << index, progress >>

\* generate_transcript: the course rows of one student and the two columns
VARIABLES
    course_data,    \* the list of course dicts handed to generate_transcript
    left_courses,   \* the left column of the layout
    right_courses,  \* the right column of the layout
    layout_pc       \* "fetched" before prepare_double_column_courses, "split" after

layout_vars == << course_data, left_courses, right_courses, layout_pc >>

\* r2: the bucket and what the two listing helpers returned last
VARIABLES
    bucket,         \* the keys of the objects in the bucket
    listing,        \* the last call of list_batch_folders and its result
    latest          \* the last call of get_latest_batch_folder and its result

r2_vars == << bucket, listing, latest >>

\* a generation run: the Grade Card Generator page, the Transcript Generator
\* page, or generate_transcript.py run as a script
VARIABLES
    db_students,     \* the student_details rows the run's filters match, each
                     \* with the number of its course-mark rows
    gen_page,        \* the page (or script) of the run, "" before
    gen_pc,          \* "idle", "fetch", "loop", "done"
    conn,            \* the psycopg2 connection: "none", "open", "closed"
    fetched,         \* the list the fetch returned, which the loop iterates
    done_students,   \* number of students the loop has finished
    batch_timestamp, \* the batch folder of the run
    output_files,    \* REGN_NO of the students whose PDF was written
    gen_log,         \* per student of the loop: what happened to it
    store_fault,     \* a connect or a query of the run raised psycopg2.Error
    gen_message,     \* the last message shown: [kind, text]
    r2_keys          \* the keys of the objects the run has uploaded

gen_vars == << db_students, gen_page, gen_pc, conn, fetched, done_students,
               batch_timestamp, output_files, gen_log, store_fault, gen_message,
               r2_keys >>

\* "Download Latest Batch": what download_batch_as_zip was answered and what
\* it returned, and the message the page showed
VARIABLES
    download        \* the last click of "Download Latest Batch"

download_vars == << download >>

\* Step 1 of process_and_sync on the header of an uploaded file
VARIABLES
    csv_columns,     \* df.columns of the uploaded file
    renamed_columns  \* df_renamed.columns, <<>> before Step 1

classify_vars == << csv_columns, renamed_columns >>

\* the photo of one student's document
VARIABLES
    photo           \* what the renderer met and which image it placed

photo_vars == << photo >>

\* the state outside the two sync pages
document_vars == << layout_vars, r2_vars, gen_vars, download_vars, classify_vars, photo_vars >>

sync_vars == << store, next_id, page, upload, pc, rows, i, total_records, success_count,
                failure_count, record_id, log, message, gate_vars, progress_vars >>

vars == << store, next_id, page, upload, pc, rows, i, total_records, success_count,
           failure_count, record_id, log, message, gate_vars, progress_vars,
           document_vars >>

\* a row of the course table that an earlier sync created, and a student row
SeededStore ==
    [t \in Tables |->
        IF t = STUDENT_COURSES_DETAILS_TABLE
        THEN << [Id |-> PyInt(1), REGN_NO |-> PyStr("AU1"), YEAR_FLAG |-> PyInt(1),
                 YEAR |-> PyInt(2021), SUBJECT_CODE |-> PyStr("101"), SUBJECT_NAME |-> PyStr("Mathematics"),
                 Marks |-> PyInt(40), TYPE |-> PyStr("CORE")] >>
        ELSE << [Id |-> PyInt(2), REGN_NO |-> PyStr("7"), YEAR_FLAG |-> PyInt(1),
                 ADMISSION_YEAR |-> PyInt(2021), NAME |-> PyStr("A."), PROGRAM |-> PyStr("BDes")] >>]
EmptyStore == [t \in Tables |-> <<>>]
InitialStores == {EmptyStore, SeededStore}

\* the store numbers the rows it creates from here on
FirstFreeId == Len(SeededStore[STUDENT_COURSES_DETAILS_TABLE])
               + Len(SeededStore[STUDENT_DETAILS_TABLE]) + 1

\* no page has been used
SessionsIdle ==
    /\ next_id = FirstFreeId
    /\ page = [p \in Sessions |-> ""]
    /\ upload = [p \in Sessions |-> DataFrame(<<>>, <<>>)]
    /\ pc = [p \in Sessions |-> "idle"]
    /\ rows = [p \in Sessions |-> <<>>]
    /\ i = [p \in Sessions |-> 0]
    /\ total_records = [p \in Sessions |-> 0]
    /\ success_count = [p \in Sessions |-> 0]
    /\ failure_count = [p \in Sessions |-> 0]
    /\ record_id = [p \in Sessions |-> 0]
    /\ log = [p \in Sessions |-> <<>>]
    /\ message = [p \in Sessions |-> ""]
    /\ session_state = [p \in Sessions |-> {}]
    /\ params = [p \in Sessions |-> [tab |-> "", year_flag |-> 0, admission_year |-> 0]]
    /\ check_response = [p \in Sessions |-> ""]
    /\ data_exists = [p \in Sessions |-> FALSE]
    /\ index = [p \in Sessions |-> <<>>]
    /\ progress = [p \in Sessions |-> <<>>]

\* no course list has been handed to the layout
NoLayout ==
    /\ course_data = <<>>
    /\ left_courses = <<>>
    /\ right_courses = <<>>
    /\ layout_pc = "fetched"

\* an Optional[str]: None, or a string
NoneStr == [is_none |-> TRUE, value |-> <<>>]
SomeStr(v) == [is_none |-> FALSE, value |-> v]

\* neither listing helper has been called
NoListing ==
    /\ listing = [answer |-> "", folder_type |-> <<>>, folders |-> <<>>]
    /\ latest = [answer |-> "", folder |-> NoneStr, folder_type |-> <<>>]

\* "Download Latest Batch" has not been clicked
NoDownload == download = [clicked |-> FALSE]

\* no header has been classified
NoHeader == csv_columns = <<>> /\ renamed_columns = <<>>

\* no document has been given a photo
NoPhoto == photo = [renderer |-> "", placed |-> ""]

\* no generation run has started
NoRun ==
    /\ gen_page = ""
    /\ gen_pc = "idle"
    /\ conn = "none"
    /\ fetched = <<>>
    /\ done_students = 0
    /\ batch_timestamp = <<>>
    /\ output_files = {}
    /\ gen_log = <<>>
    /\ store_fault = FALSE
    /\ gen_message = [kind |-> "", text |-> ""]
    /\ r2_keys = <<>>

Init ==
    /\ store \in InitialStores
    /\ SessionsIdle
    /\ NoLayout
    /\ bucket = {}
    /\ NoListing
    /\ db_students = <<>>
    /\ NoRun
    /\ NoDownload
    /\ NoHeader
    /\ NoPhoto

\* what the store, or the network, answers to a lookup and to a write
LookupAnswers == {"ok", "http_err", "not_json", "exc"}
WriteAnswers == {"ok", "rejected", "exc"}

\* one entry of the log: the record, the filter and the number of GETs sent,
\* how the lookup was answered, the rows the store held for the key then
\* (held), the rows and the first Id of the answer's list (nmatch, first),
\* the code's record_id, the number of writes sent, which and how answered,
\* and what update_or_create returned
NewCall(record) ==
    [record |-> record, filter |-> <<>>, gets |-> 0, lookup |-> "none", held |-> 0,
     nmatch |-> 0, first |-> 0, record_id |-> 0,
     writes |-> 0, write |-> "none", wres |-> "none", ret |-> "pending"]

\* the call in progress, or the last one finished
Call(p) == log[p][Len(log[p])]

\* the loop goes on to the next row, or ends with the handler's last message
EndOfRow(p, last_message) ==
    /\ i' = [i EXCEPT ![p] = @ + 1]
    /\ pc' = [pc EXCEPT ![p] = IF i[p] + 1 = total_records[p] THEN "done" ELSE "loop"]
    /\ message' = [message EXCEPT ![p] =
                     IF i[p] + 1 = total_records[p] THEN last_message ELSE @]

\* progress_val = min((i + 1) / total_records, 1.0), as a fraction num/den
progress_val(k, n) == [num |-> IF k + 1 < n THEN k + 1 ELSE n, den |-> n]

\* progress = (index + 1) / total_rows, as a fraction num/den
progress_of(label, n) == [num |-> label + 1, den |-> n]

\* st.progress accepts a float in [0.0, 1.0] and raises for any other
accepted_by_progress_bar(fraction) == 0 <= fraction.num /\ fraction.num <= fraction.den

\* the end of a row of process_and_sync: the progress bar, then the next row
CourseEndOfRow(p) ==
    /\ EndOfRow(p, "Sync Complete")
    /\ progress' = [progress EXCEPT ![p] = Append(@, progress_val(i[p], total_records[p]))]

(***************************************************************************)
(* The existence checks in front of the "Start" buttons, and "Proceed      *)
(* Anyway".                                                                *)
(***************************************************************************)
\* requests.get of a check: answered with 200 and JSON, with another status,
\* or raising
CheckAnswers == {"ok", "http_err", "exc"}

Tabs == {"Consolidated", "Annual"}

\* check_existing_data_in_nocodb: data_exists
check_existing_data_in_nocodb(year_flag, admission_year, answer) ==
    /\ answer = "ok"
    /\ record_list(store[STUDENT_COURSES_DETAILS_TABLE],
                   << [key |-> "YEAR_FLAG", value |-> ToString(year_flag)],
                      [key |-> "YEAR", value |-> ToString(admission_year)] >>) # <<>>

\* check_existing_consolidated_data: consolidated_data_exists
check_existing_consolidated_data(admission_year, answer) ==
    /\ answer = "ok"
    /\ record_list(store[STUDENT_DETAILS_TABLE],
                   << [key |-> "consolidated_grade_card_flag", value |-> "1"],
                      [key |-> "ADMISSION_YEAR", value |-> ToString(admission_year)] >>) # <<>>

\* check_existing_student_details: annual_data_exists
check_existing_student_details(year_flag, admission_year, answer) ==
    /\ answer = "ok"
    /\ record_list(store[STUDENT_DETAILS_TABLE],
                   << [key |-> "YEAR_FLAG", value |-> ToString(year_flag)],
                      [key |-> "ADMISSION_YEAR", value |-> ToString(admission_year)] >>) # <<>>

\* the check of the page or tab
existing_data(tab, year_flag, admission_year, answer) ==
    IF tab = "Consolidated" THEN check_existing_consolidated_data(admission_year, answer)
    ELSE IF tab = "Annual"
    THEN check_existing_student_details(year_flag, admission_year, answer)
    ELSE check_existing_data_in_nocodb(year_flag, admission_year, answer)

\* proceed_key: f"proceed_anyway_{year_flag}_{admission_year}", with the tab
proceed_key(tab, year_flag, admission_year) ==
    [tab |-> tab, year_flag |-> year_flag, admission_year |-> admission_year]

\* can_proceed, which enables the "Start" button
can_proceed(p, tab, year_flag, admission_year, exists) ==
    IF exists THEN proceed_key(tab, year_flag, admission_year) \in session_state[p]
    ELSE TRUE

\* "Proceed Anyway", shown under the warning that data exists, is clicked
ProceedAnyway(p) ==
    /\ pc[p] = "idle"
    /\ \E tab \in Tabs \cup {CoursePage}, year_flag_input \in year_flag_options,
          admission_year \in AdmissionYears, answer \in CheckAnswers :
         LET year_flag == IF tab = "Consolidated" THEN 0 ELSE year_flag_input
         IN  /\ existing_data(tab, year_flag, admission_year, answer)
             /\ session_state' = [session_state EXCEPT ![p] =
                                    @ \cup {proceed_key(tab, year_flag, admission_year)}]
    /\ UNCHANGED << params, check_response, data_exists, progress_vars, document_vars >>
    /\ UNCHANGED << store, next_id, page, upload, pc, rows, i, total_records,
                    success_count, failure_count, record_id, log, message >>

(***************************************************************************)
(* Course Details: process_and_sync and its update_or_create.              *)
(***************************************************************************)
\* the click on "Start Processing & Sync", up to the first row of the loop
StartCourseSync(p, uploads) ==
    /\ pc[p] = "idle"
    /\ \E df \in uploads, year_flag \in year_flag_options, admission_year \in AdmissionYears,
          answer \in CheckAnswers :
         LET long == long_df_cleaned(df, PyInt(year_flag), PyInt(admission_year))
             n == Len(long.df.data)
             exists == existing_data(CoursePage, year_flag, admission_year, answer)
         IN  /\ can_proceed(p, CoursePage, year_flag, admission_year, exists)
             /\ params' = [params EXCEPT ![p] =
                             proceed_key(CoursePage, year_flag, admission_year)]
             /\ check_response' = [check_response EXCEPT ![p] = answer]
             /\ data_exists' = [data_exists EXCEPT ![p] = exists]
             /\ page' = [page EXCEPT ![p] = CoursePage]
             /\ index' = [index EXCEPT ![p] = <<>>]
             /\ upload' = [upload EXCEPT ![p] = df]
             /\ rows' = [rows EXCEPT ![p] = IF long.ok THEN row_dicts(long.df) ELSE <<>>]
             /\ total_records' = [total_records EXCEPT ![p] = n]
             /\ pc' = [pc EXCEPT ![p] = IF long.ok /\ n > 0 THEN "loop" ELSE "done"]
             /\ message' = [message EXCEPT ![p] =
                              IF ~long.ok THEN "Error during data transformation"
                              ELSE IF n = 0 THEN "No records to process"
                              ELSE "Total records to process"]
    /\ UNCHANGED << session_state, progress, document_vars >>
    /\ UNCHANGED << store, next_id, i, success_count, failure_count, record_id, log >>

\* a row whose record lacks a unique key: update_or_create returns False
\* before any request, and the loop counts the row
CourseSkip(p) ==
    LET record == course_record(rows[p][i[p] + 1])
    IN  /\ pc[p] = "loop" /\ page[p] = CoursePage
        /\ missing_key(record, COMPOSITE_UNIQUE_KEYS(CoursePage))
        /\ log' = [log EXCEPT ![p] = Append(@, [NewCall(record) EXCEPT !.ret = "False"])]
        /\ failure_count' = [failure_count EXCEPT ![p] = @ + 1]
        /\ CourseEndOfRow(p)
        /\ UNCHANGED << index, gate_vars, document_vars >>
        /\ UNCHANGED << store, next_id, page, upload, rows, total_records, success_count,
                        record_id >>

\* requests.get with the filter, and what the code does with the answer
CourseLookup(p) ==
    LET record == course_record(rows[p][i[p] + 1])
        unique_keys == COMPOSITE_UNIQUE_KEYS(CoursePage)
        list == record_list(store[STUDENT_COURSES_DETAILS_TABLE],
                            filter_parts(CoursePage, record, unique_keys))
    IN  /\ pc[p] = "loop" /\ page[p] = CoursePage
        /\ ~missing_key(record, unique_keys)
        /\ \E answer \in LookupAnswers :
             LET call == [NewCall(record) EXCEPT
                             !.filter = filter_parts(CoursePage, record, unique_keys),
                             !.gets = 1, !.lookup = answer, !.held = Len(list),
                             !.nmatch = IF answer = "ok" THEN Len(list) ELSE 0,
                             !.first = IF answer = "ok" /\ Len(list) > 0
                                       THEN list[1].Id.n ELSE 0,
                             !.record_id = IF answer = "ok" THEN record_id_of(list) ELSE 0]
             IN  IF answer \in {"exc", "not_json"}
                 THEN \* caught by "except Exception": return False
                      /\ log' = [log EXCEPT ![p] = Append(@, [call EXCEPT !.ret = "False"])]
                      /\ failure_count' = [failure_count EXCEPT ![p] = @ + 1]
                      /\ record_id' = [record_id EXCEPT ![p] = 0]
                      /\ CourseEndOfRow(p)
                 ELSE /\ log' = [log EXCEPT ![p] = Append(@, call)]
                      /\ record_id' = [record_id EXCEPT ![p] = call.record_id]
                      /\ pc' = [pc EXCEPT ![p] = "write"]
                      /\ UNCHANGED << failure_count, i, message, progress >>
        /\ UNCHANGED << index, gate_vars, document_vars >>
        /\ UNCHANGED << store, next_id, page, upload, rows, total_records, success_count >>

\* variant: the write decides between PATCH and POST on the rows the store
\* holds at the moment of the write, not on the earlier answer
CourseWriteRequeried(p) ==
    LET record == Call(p).record
        t == STUDENT_COURSES_DETAILS_TABLE
        target == record_id_of(record_list(store[t], Call(p).filter))
        action == IF target # 0 THEN "PATCH" ELSE "POST"
    IN  /\ pc[p] = "write" /\ page[p] = CoursePage
        /\ \E answer \in WriteAnswers :
             /\ log' = [log EXCEPT ![p][Len(log[p])] =
                          [@ EXCEPT !.writes = @ + 1, !.write = action, !.wres = answer,
                                    !.ret = IF answer = "ok" THEN "True" ELSE "False"]]
             /\ IF answer = "ok"
                THEN /\ store' = [store EXCEPT ![t] =
                                    IF action = "PATCH" THEN patched(@, target, record)
                                    ELSE posted(@, next_id, record)]
                     /\ next_id' = IF action = "POST" THEN next_id + 1 ELSE next_id
                     /\ success_count' = [success_count EXCEPT ![p] = @ + 1]
                     /\ UNCHANGED failure_count
                ELSE /\ failure_count' = [failure_count EXCEPT ![p] = @ + 1]
                     /\ UNCHANGED << store, next_id, success_count >>
        /\ CourseEndOfRow(p)
        /\ UNCHANGED << index, gate_vars, document_vars >>
        /\ UNCHANGED << page, upload, rows, total_records, record_id >>

\* requests.patch to the found row, or requests.post, and the count
CourseWrite(p) ==
    LET record == Call(p).record
        t == STUDENT_COURSES_DETAILS_TABLE
        action == IF record_id[p] # 0 THEN "PATCH" ELSE "POST"
    IN  /\ pc[p] = "write" /\ page[p] = CoursePage
        /\ \E answer \in WriteAnswers :
             /\ log' = [log EXCEPT ![p][Len(log[p])] =
                          [@ EXCEPT !.writes = @ + 1, !.write = action, !.wres = answer,
                                    !.ret = IF answer = "ok" THEN "True" ELSE "False"]]
             /\ IF answer = "ok"
                THEN /\ store' = [store EXCEPT ![t] =
                                    IF action = "PATCH" THEN patched(@, record_id[p], record)
                                    ELSE posted(@, next_id, record)]
                     /\ next_id' = IF action = "POST" THEN next_id + 1 ELSE next_id
                     /\ success_count' = [success_count EXCEPT ![p] = @ + 1]
                     /\ UNCHANGED failure_count
                ELSE /\ failure_count' = [failure_count EXCEPT ![p] = @ + 1]
                     /\ UNCHANGED << store, next_id, success_count >>
        /\ CourseEndOfRow(p)
        /\ UNCHANGED << index, gate_vars, document_vars >>
        /\ UNCHANGED << page, upload, rows, total_records, record_id >>

(***************************************************************************)
(* Student Details: process_student_details_sync and its update_or_create. *)
(***************************************************************************)
\* the click on "Start Sync" of one of the two tabs, up to the first row
StartStudentSync(p, uploads) ==
    /\ pc[p] = "idle"
    /\ \E df \in uploads, tab \in Tabs, year_flag_annual \in year_flag_options,
          admission_year \in AdmissionYears, answer \in CheckAnswers :
         LET year_flag == IF tab = "Consolidated" THEN 0 ELSE year_flag_annual
             exists == existing_data(tab, year_flag, admission_year, answer)
             consolidated_grade_card_flag == IF tab = "Consolidated" THEN 1 ELSE 0
             stops == validation_stops(df, consolidated_grade_card_flag)
             key_error == c_REGN_NO \notin Range(df.columns)
             frame == student_df(df, PyInt(year_flag), PyInt(admission_year))
             n == Len(frame.data)
             loops == ~stops /\ ~key_error /\ n > 0
         IN  /\ can_proceed(p, tab, year_flag, admission_year, exists)
             /\ params' = [params EXCEPT ![p] = proceed_key(tab, year_flag, admission_year)]
             /\ check_response' = [check_response EXCEPT ![p] = answer]
             /\ data_exists' = [data_exists EXCEPT ![p] = exists]
             /\ page' = [page EXCEPT ![p] = StudentPage]
             /\ index' = [index EXCEPT ![p] =
                            IF loops THEN student_index(df, PyInt(year_flag)) ELSE <<>>]
             /\ upload' = [upload EXCEPT ![p] = df]
             /\ rows' = [rows EXCEPT ![p] = IF loops THEN row_dicts(frame) ELSE <<>>]
             /\ total_records' = [total_records EXCEPT ![p] = IF loops THEN n ELSE 0]
             /\ pc' = [pc EXCEPT ![p] = IF loops THEN "loop" ELSE "done"]
             /\ message' = [message EXCEPT ![p] =
                              IF stops THEN "Error: consolidated_grade_card_flag"
                              ELSE IF key_error THEN "Error reading CSV"
                              ELSE IF n = 0 THEN "Sync Process Finished."
                              ELSE "Total rows to process"]
    /\ UNCHANGED << session_state, progress, document_vars >>
    /\ UNCHANGED << store, next_id, i, success_count, failure_count, record_id, log >>

\* update_or_create up to its write: the key check, requests.get, and what
\* the code does with the answer
StudentLookup(p) ==
    LET record == student_record(rows[p][i[p] + 1])
        unique_keys == COMPOSITE_UNIQUE_KEYS(StudentPage)
        fraction == progress_of(index[p][i[p] + 1], total_records[p])
    IN  /\ pc[p] = "loop" /\ page[p] = StudentPage
        /\ progress' = [progress EXCEPT ![p] = Append(@, fraction)]
        /\ IF ~accepted_by_progress_bar(fraction)
           THEN \* progress_bar.progress raises; the tab's "except Exception"
                \* shows it, and no row from here on is sent
                /\ pc' = [pc EXCEPT ![p] = "done"]
                /\ message' = [message EXCEPT ![p] = "Error reading CSV"]
                /\ UNCHANGED << log, record_id, i >>
           ELSE IF missing_key(record, unique_keys)
           THEN \* logged, and the function returns before any request
                /\ log' = [log EXCEPT ![p] = Append(@, [NewCall(record) EXCEPT !.ret = "None"])]
                /\ record_id' = [record_id EXCEPT ![p] = 0]
                /\ EndOfRow(p, "Sync Process Finished.")
           ELSE \E answer \in LookupAnswers :
                LET list == record_list(store[STUDENT_DETAILS_TABLE],
                                        filter_parts(StudentPage, record, unique_keys))
                    call == [NewCall(record) EXCEPT
                               !.filter = filter_parts(StudentPage, record, unique_keys),
                               !.gets = 1, !.lookup = answer, !.held = Len(list),
                               !.nmatch = IF answer = "ok" THEN Len(list) ELSE 0,
                               !.first = IF answer = "ok" /\ Len(list) > 0
                                         THEN list[1].Id.n ELSE 0,
                               !.record_id = IF answer = "ok" THEN record_id_of(list) ELSE 0]
                IN  IF answer = "exc"
                    THEN \* "Request failed" is logged and the function returns
                         /\ log' = [log EXCEPT ![p] = Append(@, [call EXCEPT !.ret = "None"])]
                         /\ record_id' = [record_id EXCEPT ![p] = 0]
                         /\ EndOfRow(p, "Sync Process Finished.")
                    ELSE /\ log' = [log EXCEPT ![p] = Append(@, call)]
                         /\ record_id' = [record_id EXCEPT ![p] = call.record_id]
                         /\ pc' = [pc EXCEPT ![p] = "write"]
                         /\ UNCHANGED << i, message >>
        /\ UNCHANGED << index, gate_vars, document_vars >>
        /\ UNCHANGED << store, next_id, page, upload, rows, total_records, success_count,
                        failure_count >>

\* requests.patch to the found row, or requests.post; neither is inside a try
StudentWrite(p) ==
    LET record == Call(p).record
        t == STUDENT_DETAILS_TABLE
        action == IF record_id[p] # 0 THEN "PATCH" ELSE "POST"
    IN  /\ pc[p] = "write" /\ page[p] = StudentPage
        /\ \E answer \in WriteAnswers :
             /\ log' = [log EXCEPT ![p][Len(log[p])] =
                          [@ EXCEPT !.writes = @ + 1, !.write = action, !.wres = answer,
                                    !.ret = IF answer = "exc" THEN "raised" ELSE "None"]]
             /\ IF answer = "ok"
                THEN /\ store' = [store EXCEPT ![t] =
                                    IF action = "PATCH" THEN patched(@, record_id[p], record)
                                    ELSE posted(@, next_id, record)]
                     /\ next_id' = IF action = "POST" THEN next_id + 1 ELSE next_id
                ELSE UNCHANGED << store, next_id >>
             /\ IF answer = "exc"
                THEN \* the exception leaves the loop and the handler; the tab's
                     \* "except Exception" shows it
                     /\ pc' = [pc EXCEPT ![p] = "done"]
                     /\ message' = [message EXCEPT ![p] = "Error reading CSV"]
                     /\ UNCHANGED i
                ELSE EndOfRow(p, "Sync Process Finished.")
        /\ UNCHANGED << index, progress, gate_vars, document_vars >>
        /\ UNCHANGED << page, upload, rows, total_records, success_count, failure_count,
                        record_id >>

(***************************************************************************)
(* Specifications.  Spec: one session runs one sync of either page against *)
(* the store.  SpecRace: every session runs a course sync of the same      *)
(* one-subject file, their requests interleaved.                           *)
(***************************************************************************)
Next ==
    \E p \in {1} :
        \/ StartCourseSync(p, CourseUploads)
        \/ CourseSkip(p)
        \/ CourseLookup(p)
        \/ CourseWrite(p)
        \/ StartStudentSync(p, StudentUploads)
        \/ StudentLookup(p)
        \/ StudentWrite(p)
        \/ ProceedAnyway(p)

Spec == Init /\ [][Next]_vars

RaceUploads == {UploadOne}

NextRace ==
    \E p \in Sessions :
        \/ StartCourseSync(p, RaceUploads)
        \/ CourseLookup(p)
        \/ CourseWrite(p)

SpecRace == Init /\ [][NextRace]_vars

\* SpecReshape: the reshaper alone, applied to every table of WideTables
NextReshape == \E p \in {1} : StartCourseSync(p, WideTables)

InitReshape ==
    /\ Init
    /\ store = EmptyStore

SpecReshape == InitReshape /\ [][NextReshape]_vars

\* SpecClassify: Step 1 alone, applied to headers of up to MaxColumns of
\* these column names
ColumnNames ==
    { SUBn(1), c_SUB \o <<"1", "2">>, SUBnNM(1), SUBnNM(2), SUBn_(1, c_TOT),
      SUBn_(2, c_GRADE_POINTS), c_REGN_NO, c_NAME, c_RESULT,
      c_SUB \o <<"_">> \o c_TOT, c_SUBJECT_CODE, c_SUB \o c_NM, c_SUB }

MaxColumns == 2

Headers ==
    UNION { {h \in [1..n -> ColumnNames] : \A j, k \in 1..n : j # k => h[j] # h[k]} :
            n \in 1..MaxColumns }

\* df_renamed = df.rename(columns=new_columns)
ClassifyColumns ==
    /\ renamed_columns = <<>>
    /\ renamed_columns' = [k \in DOMAIN csv_columns |-> new_columns(csv_columns[k])]
    /\ UNCHANGED << csv_columns, sync_vars, layout_vars, r2_vars, gen_vars, download_vars,
                    photo_vars >>

NextClassify == ClassifyColumns

InitClassify ==
    /\ store = EmptyStore
    /\ SessionsIdle
    /\ NoLayout
    /\ bucket = {}
    /\ NoListing
    /\ db_students = <<>>
    /\ NoRun
    /\ NoDownload
    /\ csv_columns \in Headers
    /\ renamed_columns = <<>>
    /\ NoPhoto

SpecClassify == InitClassify /\ [][NextClassify]_vars

(***************************************************************************)
(* The photo of a document: GradeCardGenerator.process_photo and           *)
(* create_overlay, and the photo path of process_single_student_transcript.*)
(***************************************************************************)
\* what the students_photos table answers: a row with an image URL, no row,
\* a status other than 200, an exception
PhotoTableAnswers == {"url", "no_row", "http_err", "exc"}

\* what requests.get(photo_url) answers
PhotoGetAnswers == {"200", "404", "exc"}

\* image data: "good" opens and loads; "truncated" is opened by Image.open,
\* which reads the header only, and raises when its pixels are loaded;
\* "not_image" makes Image.open raise
ImageData == {"good", "truncated", "not_image"}

\* the local photo file: absent, or a file with image data
LocalFiles == {"absent"} \cup ImageData

NoImage == "no_image"

\* the URL of the student's image, or None
fetch_student_photo_url(table_answer) ==
    IF table_answer = "url" THEN "photo_url" ELSE "None"

\* Image.open: the opened image, or NoImage where the code catches its exception
Image_open(content) == IF content = "not_image" THEN NoImage ELSE content

\* img after the URL part of process_photo
img_from_url(photo_url, get_answer, url_content) ==
    IF photo_url = "None" \/ get_answer # "200" THEN NoImage
    ELSE Image_open(url_content)

\* img after the local-file part of process_photo, reached when img is None
img_from_file(local_file) ==
    IF local_file = "absent" THEN NoImage ELSE Image_open(local_file)

\* process_photo: the source of the processed image ("url", "local"), or
\* "None"; convert/copy/thumbnail load the pixels and their exception makes
\* the function return None
process_photo(local_file, photo_url, get_answer, url_content) ==
    LET from_url == img_from_url(photo_url, get_answer, url_content)
        img == IF from_url # NoImage THEN from_url ELSE img_from_file(local_file)
        source == IF from_url # NoImage THEN "url" ELSE "local"
    IN  IF img = NoImage THEN "None"
        ELSE IF img = "good" THEN source
        ELSE "None"

\* create_overlay, the photo: the processed photo, else the placeholder
CreateOverlayPhoto ==
    \E table_answer \in PhotoTableAnswers : \E get_answer \in PhotoGetAnswers :
    \E url_content \in ImageData : \E local_file \in LocalFiles :
        LET photo_url == fetch_student_photo_url(table_answer)
            processed_photo_data == process_photo(local_file, photo_url, get_answer,
                                                  url_content)
        IN  /\ photo' = [renderer |-> "grade_card", table_answer |-> table_answer,
                         get_answer |-> get_answer, url_content |-> url_content,
                         local_file |-> local_file,
                         placed |-> IF processed_photo_data # "None"
                                    THEN processed_photo_data ELSE "placeholder"]
            /\ UNCHANGED << sync_vars, layout_vars, r2_vars, gen_vars, download_vars,
                            classify_vars >>

\* process_single_student_transcript, photo_path: the local file when it
\* exists, else the placeholder; the table-store is not asked for a URL
TranscriptPhotoPath ==
    \E table_answer \in PhotoTableAnswers : \E get_answer \in PhotoGetAnswers :
    \E url_content \in ImageData : \E local_file \in LocalFiles :
        /\ photo' = [renderer |-> "transcript", table_answer |-> table_answer,
                     get_answer |-> get_answer, url_content |-> url_content,
                     local_file |-> local_file,
                     placed |-> IF local_file # "absent" THEN "local" ELSE "placeholder"]
        /\ UNCHANGED << sync_vars, layout_vars, r2_vars, gen_vars, download_vars,
                        classify_vars >>

NextPhoto == CreateOverlayPhoto \/ TranscriptPhotoPath

InitPhoto ==
    /\ store = EmptyStore
    /\ SessionsIdle
    /\ NoLayout
    /\ bucket = {}
    /\ NoListing
    /\ db_students = <<>>
    /\ NoRun
    /\ NoDownload
    /\ NoHeader
    /\ NoPhoto

SpecPhoto == InitPhoto /\ [][NextPhoto]_vars

(***************************************************************************)
(* generate_transcript.py: the double-column layout of the course rows.    *)
(***************************************************************************)
\* seq[:k] for 0 <= k <= len(seq)
SliceTo(seq, k) == SubSeq(seq, 1, k)

\* the mutant of enumerate_sl_no: numbered from 0
enumerate_from_zero(courses) ==
    [k \in DOMAIN courses |-> ("sl_no" :> (k - 1)) @@ courses[k]]

\* for i, course in enumerate(courses): course['sl_no'] = i + 1
enumerate_sl_no(courses) ==
    [k \in DOMAIN courses |-> ("sl_no" :> k) @@ courses[k]]

\* the mutant of split_index: total_courses // 2
split_index_floor(courses) == Len(courses) \div 2

\* split_index = (total_courses + 1) // 2
split_index(courses) == (Len(courses) + 1) \div 2

\* the list as the call leaves it, and the pair the call returns
prepare_double_column_courses(courses) ==
    LET numbered == enumerate_sl_no(courses)
    IN  [courses      |-> numbered,
         left_column  |-> SliceTo(numbered, split_index(numbered)),
         right_column |-> SliceFrom(numbered, split_index(numbered))]

\* course rows as fetch_courses builds them; the last one carries a number
\* from an earlier layout
CourseRows ==
    { [Course_Code |-> "MA101", Grade |-> "A"],
      [Course_Code |-> "PH102", Grade |-> "B+"],
      [Course_Code |-> "MA101", Grade |-> "A", sl_no |-> 9] }

MaxCourses == 4
CourseLists == UNION {[1..n -> CourseRows] : n \in 0..MaxCourses}

\* generate_transcript: left_courses, right_courses = prepare_double_column_courses(course_data)
PrepareColumns ==
    /\ layout_pc = "fetched"
    /\ LET r == prepare_double_column_courses(course_data)
       IN  /\ course_data' = r.courses
           /\ left_courses' = r.left_column
           /\ right_courses' = r.right_column
    /\ layout_pc' = "split"
    /\ UNCHANGED << r2_vars, gen_vars, download_vars, classify_vars, photo_vars >>
    /\ UNCHANGED sync_vars

NextLayout == PrepareColumns

InitLayout ==
    /\ store = EmptyStore
    /\ SessionsIdle
    /\ course_data \in CourseLists
    /\ left_courses = <<>>
    /\ right_courses = <<>>
    /\ layout_pc = "fetched"
    /\ bucket = {}
    /\ NoListing
    /\ db_students = <<>>
    /\ NoRun
    /\ NoDownload
    /\ NoHeader
    /\ NoPhoto

SpecLayout == InitLayout /\ [][NextLayout]_vars

(***************************************************************************)
(* r2/helper.py and r2/client.py: object keys, batch folders, listings.    *)
(* Strings are spelled out character by character.                         *)
(***************************************************************************)
\* ord(ch) for the characters of a batch timestamp
ord(ch) ==
    CASE ch = "0" -> 48 [] ch = "1" -> 49 [] ch = "2" -> 50 [] ch = "3" -> 51
      [] ch = "4" -> 52 [] ch = "5" -> 53 [] ch = "6" -> 54 [] ch = "7" -> 55
      [] ch = "8" -> 56 [] ch = "9" -> 57 [] ch = "_" -> 95

\* a < b for two Python strings
str_less(a, b) ==
    \/ Len(a) < Len(b) /\ SubSeq(b, 1, Len(a)) = a
    \/ \E k \in 1..Len(a) :
          /\ k <= Len(b)
          /\ SubSeq(a, 1, k - 1) = SubSeq(b, 1, k - 1)
          /\ ord(a[k]) < ord(b[k])

\* s.split(sep) for a one-character sep
RECURSIVE split(_, _)
split(s, sep) ==
    IF \A k \in 1..Len(s) : s[k] # sep
    THEN << s >>
    ELSE LET k == CHOOSE j \in 1..Len(s) : s[j] = sep /\ \A m \in 1..(j - 1) : s[m] # sep
         IN  << SubSeq(s, 1, k - 1) >> \o split(SubSeq(s, k + 1, Len(s)), sep)

\* s.replace(old, new) for a one-character old
RECURSIVE replace(_, _, _)
replace(s, old, new) ==
    IF s = <<>> THEN <<>>
    ELSE (IF Head(s) = old THEN new ELSE << Head(s) >>) \o replace(Tail(s), old, new)

\* the mutant of sorted_reverse: sorted(list(folders))
RECURSIVE sorted_ascending(_)
sorted_ascending(S) ==
    IF S = {} THEN <<>>
    ELSE LET least == CHOOSE x \in S : \A y \in S \ {x} : str_less(x, y)
         IN  << least >> \o sorted_ascending(S \ {least})

\* sorted(list(folders), reverse=True)
RECURSIVE sorted_reverse(_)
sorted_reverse(S) ==
    IF S = {} THEN <<>>
    ELSE LET greatest == CHOOSE x \in S : \A y \in S \ {x} : str_less(y, x)
         IN  << greatest >> \o sorted_reverse(S \ {greatest})

\* "%02d"
zfill2(n) ==
    LET digit(d) == CHOOSE ch \in DigitChars : ord(ch) = 48 + d
    IN  << digit(n \div 10), digit(n % 10) >>

\* datetime.now().strftime("%Y%m%d_%H%M%S"); the clock of the model shows
\* 14:30 on a day of December 2023
generate_batch_timestamp(now) ==
    <<"2","0","2","3","1","2">> \o zfill2(now.day) \o <<"_","1","4","3","0">>
        \o zfill2(now.second)

gradecards == <<"g","r","a","d","e","c","a","r","d","s">>
transcripts == <<"t","r","a","n","s","c","r","i","p","t","s">>
FolderTypes == {gradecards, transcripts}

\* the mutant of generate_file_key: no batch folder in the key
generate_file_key_flat(base_folder, timestamp, regn_no, student_name) ==
    base_folder \o <<"/">> \o replace(regn_no, "/", <<"_">>) \o <<".","p","d","f">>

\* generate_file_key
generate_file_key(base_folder, timestamp, regn_no, student_name) ==
    LET safe_name == replace(replace(replace(student_name, " ", <<"_">>), ".", <<>>),
                             "/", <<"_">>)
        safe_regn_no == replace(regn_no, "/", <<"_">>)
        filename == safe_regn_no \o <<"_">> \o safe_name \o <<".","p","d","f">>
    IN  base_folder \o <<"/">> \o timestamp \o <<"/">> \o filename

\* what the object store answers to a listing: the pages of keys, a
\* ClientError, or another exception (no credentials, no connection)
ListAnswers == {"ok", "ClientError", "exc"}

\* R2Client.list_files: the keys of the files listed
list_files(prefix, answer) ==
    IF answer = "ok" THEN {key \in bucket : startswith(key, prefix)} ELSE {}

\* list_batch_folders
list_batch_folders(folder_type, answer) ==
    IF answer = "exc" THEN <<>>
    ELSE LET files == list_files(folder_type \o <<"/">>, answer)
             folders == { split(key, "/")[2] :
                            key \in {f \in files : Len(split(f, "/")) >= 2} }
         IN  sorted_reverse(folders)

\* get_latest_batch_folder
get_latest_batch_folder(folder_type, answer) ==
    LET folders == list_batch_folders(folder_type, answer)
    IN  IF folders # <<>> THEN SomeStr(folders[1]) ELSE NoneStr

\* the clock readings at which generation runs started
Days == {9, 10}
Seconds == {5, 52}
Clock == [day : Days, second : Seconds]

\* the students whose files were uploaded: registration number and name
Graduates ==
    { << <<"7">>, <<"A"," ","B",".">> >>, << <<"A","U","/","1">>, <<"C">> >> }

\* the keys that generation runs of both kinds may have uploaded
UploadedKeys ==
    { generate_file_key(kind, generate_batch_timestamp(now), g[1], g[2]) :
        kind \in FolderTypes, now \in Clock, g \in Graduates }

MaxObjects == 3
Buckets == {b \in SUBSET UploadedKeys : Cardinality(b) <= MaxObjects}

ListBatchFolders(folder_type) ==
    /\ \E answer \in ListAnswers :
          listing' = [answer |-> answer, folder_type |-> folder_type,
                      folders |-> list_batch_folders(folder_type, answer)]
    /\ UNCHANGED << bucket, latest, layout_vars, gen_vars, download_vars, classify_vars, photo_vars >>
    /\ UNCHANGED sync_vars

GetLatestBatchFolder(folder_type) ==
    /\ \E answer \in ListAnswers :
          latest' = [answer |-> answer,
                     folder |-> get_latest_batch_folder(folder_type, answer),
                     folder_type |-> folder_type]
    /\ UNCHANGED << bucket, listing, layout_vars, gen_vars, download_vars, classify_vars, photo_vars >>
    /\ UNCHANGED sync_vars

NextBatches ==
    \E folder_type \in FolderTypes :
        \/ ListBatchFolders(folder_type)
        \/ GetLatestBatchFolder(folder_type)

InitBatches ==
    /\ store = EmptyStore
    /\ SessionsIdle
    /\ NoLayout
    /\ bucket \in Buckets
    /\ NoListing
    /\ db_students = <<>>
    /\ NoRun
    /\ NoDownload
    /\ NoHeader
    /\ NoPhoto

SpecBatches == InitBatches /\ [][NextBatches]_vars

(***************************************************************************)
(* "Download Latest Batch" of both generator pages: download_batch_as_zip  *)
(* and the message the page shows for its result.                          *)
(***************************************************************************)
\* R2Client.get_file_content of one object: its bytes, no bytes at all, None
\* after a ClientError, or another exception
ContentAnswers == {"bytes", "empty", "ClientError", "exc"}

\* an Optional[bytes] holding an archive: None, or its entries, each with
\* its name and the object whose bytes it holds
NoneZip == [is_none |-> TRUE, entries |-> {}]
SomeZip(entries) == [is_none |-> FALSE, entries |-> entries]

\* r2_key.split('/')[-1]
filename_of(r2_key) == LET parts == split(r2_key, "/") IN parts[Len(parts)]

\* prefix = f"{folder_type}/{batch_timestamp}/"
batch_prefix(folder_type, batch) == folder_type \o <<"/">> \o batch \o <<"/">>

\* download_batch_as_zip(folder_type): (zip_bytes, batch_timestamp, file_count)
download_batch_as_zip(folder_type, latest_answer, list_answer, content_answers) ==
    LET batch == get_latest_batch_folder(folder_type, latest_answer)
        files == list_files(batch_prefix(folder_type, batch.value), list_answer)
        entries == { [filename |-> filename_of(r2_key), key |-> r2_key] :
                       r2_key \in {f \in files : content_answers[f] = "bytes"} }
    IN  IF batch.is_none \/ batch.value = <<>>
        THEN [zip_data |-> NoneZip, batch_ts |-> <<>>, file_count |-> 0]
        ELSE IF list_answer = "exc"
        THEN [zip_data |-> NoneZip, batch_ts |-> batch.value, file_count |-> 0]
        ELSE IF files = {}
        THEN [zip_data |-> NoneZip, batch_ts |-> batch.value, file_count |-> 0]
        ELSE IF \E f \in files : content_answers[f] = "exc"
        THEN [zip_data |-> NoneZip, batch_ts |-> batch.value, file_count |-> 0]
        ELSE [zip_data |-> SomeZip(entries), batch_ts |-> batch.value,
              file_count |-> Cardinality(files)]

\* the mutant of download_message: one message for every empty result
download_message_by_count(r) ==
    IF r.file_count > 0 THEN "Ready! Found files in batch"
    ELSE "No batch folders found in R2 storage."

\* the message of the page for a result of download_batch_as_zip
download_message(r) ==
    IF ~r.zip_data.is_none /\ r.file_count > 0 THEN "Ready! Found files in batch"
    ELSE IF r.batch_ts # <<>> THEN "No files found in batch"
    ELSE "No batch folders found in R2 storage."

\* "Download Latest Batch" clicked on the page of folder_type
DownloadLatestBatch(folder_type) ==
    /\ \E latest_answer \in ListAnswers : \E list_answer \in ListAnswers :
          LET batch == get_latest_batch_folder(folder_type, latest_answer)
              files == list_files(batch_prefix(folder_type, batch.value), list_answer)
          IN  \E content_answers \in [files -> ContentAnswers] :
                 LET r == download_batch_as_zip(folder_type, latest_answer, list_answer,
                                                content_answers)
                 IN  download' = [clicked |-> TRUE, folder_type |-> folder_type,
                                  latest_answer |-> latest_answer,
                                  list_answer |-> list_answer,
                                  content_answers |-> content_answers,
                                  result |-> r, shown |-> download_message(r)]
    /\ UNCHANGED << sync_vars, layout_vars, r2_vars, gen_vars, classify_vars, photo_vars >>

NextDownload == \E folder_type \in FolderTypes : DownloadLatestBatch(folder_type)

InitDownload ==
    /\ store = EmptyStore
    /\ SessionsIdle
    /\ NoLayout
    /\ bucket \in Buckets
    /\ NoListing
    /\ db_students = <<>>
    /\ NoRun
    /\ NoDownload
    /\ NoHeader
    /\ NoPhoto

SpecDownload == InitDownload /\ [][NextDownload]_vars

(***************************************************************************)
(* Document generation: the Grade Card Generator page and the Transcript   *)
(* Generator page of app.py, and generate_transcript.py run as a script.   *)
(* A student row of the relational store is a student_details row together *)
(* with the number of its student_courses_details rows.                    *)
(***************************************************************************)
GradeCardPage == "Grade Card Generator"
TranscriptPage == "Transcript Generator"
TranscriptScript == "generate_transcript.py"

\* psycopg2.connect, or a query: answered, or raising psycopg2.Error
StoreAnswers == {"ok", "Error"}

\* rendering a document: the overlay or the template may fail, and so may
\* the merge with the template PDF or the writing of the PDF
RenderAnswers == {"ok", "render_error", "merge_error"}

\* client.upload_file: True, or False after a ClientError
UploadAnswers == {"ok", "failed"}

\* db/index.py get_db_connection: the connection, or None after an Error
get_db_connection(answer) == IF answer = "ok" THEN "open" ELSE "none"

\* the mutant of close: the connection is left as it is
left_open(c) == c

\* finally: if conn: conn.close()
close(c) == IF c = "open" THEN "closed" ELSE c

\* the number of course-mark rows the store holds for a registration number
course_records(regn_no) ==
    LET held == {k \in DOMAIN db_students : db_students[k].REGN_NO = regn_no}
    IN  IF held = {} THEN 0 ELSE db_students[CHOOSE k \in held : TRUE].courses

\* the entry fetch_all_gradecard_data appends for a student row
gradecard_item(s) ==
    [student_info  |-> [name |-> s.CNAME, reg_no |-> s.REGN_NO],
     student_marks |-> course_records(s.REGN_NO)]

\* fetch_all_gradecard_data once connected.  The rows are walked in order:
\* the course query of a row may raise psycopg2.Error, which ends the walk
\* with the entries built so far; float(CGPA) of a NULL CGPA raises a
\* TypeError, which is not caught there.
fetch_all_gradecard_data(students, students_answer, course_answers) ==
    LET n == Len(students)
        failing == {k \in 1..n : course_answers[k] = "Error"}
        unconvertible == {k \in 1..n : students[k].CGPA.is_none}
        failed_at == IF failing = {} THEN n + 1
                     ELSE CHOOSE k \in failing : \A m \in failing : k <= m
        bad_at == IF unconvertible = {} THEN n + 1
                  ELSE CHOOSE k \in unconvertible : \A m \in unconvertible : k <= m
    IN  IF students_answer = "Error"
        THEN [raised |-> FALSE, fault |-> TRUE, list |-> <<>>]
        ELSE IF bad_at < failed_at
        THEN [raised |-> TRUE, fault |-> FALSE, list |-> <<>>]
        ELSE [raised |-> FALSE, fault |-> failed_at <= n,
              list |-> [k \in 1..(failed_at - 1) |-> gradecard_item(students[k])]]

\* generate_certificate: the output path (TRUE), or None (FALSE) after any
\* exception; student_info.get("name").upper() raises on a NULL name; a list
\* of no marks draws no table row and raises nothing
generate_certificate(item, render) ==
    ~item.student_info.name.is_none /\ render = "ok"

\* the row as fetch_all_students_details returns it
student_record_of(s) == [regn_no |-> s.REGN_NO, name |-> s.CNAME, cgpa |-> s.CGPA]

\* the parameters fetch_all_students_details accepts, and the keywords the
\* Transcript Generator page calls it with
fetch_all_students_details_params == {"conn", "specific_regn_no"}
TranscriptPageKeywords == {"specific_regn_no", "year_of_completion", "academic_course_id"}

\* TypeError: fetch_all_students_details() got an unexpected keyword argument
unexpected_keyword == TranscriptPageKeywords \ fetch_all_students_details_params # {}

\* process_single_student_transcript: "raised" (an AttributeError from
\* student_params['name'].replace on a NULL name), "written", or "None"
process_single_student_transcript(s_record, course_answer, render) ==
    LET student_course_data ==
            IF course_answer = "ok" THEN course_records(s_record.regn_no) ELSE 0
    IN  IF student_course_data = 0 THEN "None"
        ELSE IF s_record.name.is_none THEN "raised"
        ELSE IF render = "ok" THEN "written"
        ELSE "None"

\* student rows: complete; without course marks; with a NULL CGPA; with a
\* NULL name
StudentRows ==
    { [REGN_NO |-> <<"7">>, CNAME |-> SomeStr(<<"A"," ","B",".">>),
       CGPA |-> SomeStr(<<"8",".","5">>), courses |-> 2],
      [REGN_NO |-> <<"8">>, CNAME |-> SomeStr(<<"C">>),
       CGPA |-> SomeStr(<<"7",".","0">>), courses |-> 0],
      [REGN_NO |-> <<"9">>, CNAME |-> SomeStr(<<"D">>),
       CGPA |-> NoneStr, courses |-> 1],
      [REGN_NO |-> <<"6">>, CNAME |-> NoneStr,
       CGPA |-> SomeStr(<<"9",".","1">>), courses |-> 1] }

MaxStudents == 2

\* the rows the filters of a run match: up to MaxStudents different students
StudentTables ==
    UNION { {t \in [1..n -> StudentRows] : \A j, k \in 1..n : j # k => t[j] # t[k]} :
            n \in 0..MaxStudents }

Shown(kind, text) == [kind |-> kind, text |-> text]

\* "Generate Grade Cards" clicked: fetch_all_gradecard_data up to its
\* connection; without one it returns [] and the page reports "no data"
GradeCardConnect ==
    /\ gen_pc = "idle"
    /\ gen_page' = GradeCardPage
    /\ \E answer \in StoreAnswers :
          /\ conn' = get_db_connection(answer)
          /\ store_fault' = (answer = "Error")
          /\ IF get_db_connection(answer) = "none"
             THEN /\ gen_pc' = "done"
                  /\ gen_message' = Shown("warning", "No student data found for the given parameters.")
             ELSE /\ gen_pc' = "fetch"
                  /\ UNCHANGED gen_message
    /\ UNCHANGED << db_students, fetched, done_students, batch_timestamp, output_files,
                    gen_log >>
    /\ UNCHANGED << r2_keys, sync_vars, layout_vars, r2_vars, download_vars, classify_vars, photo_vars >>

\* the rest of fetch_all_gradecard_data, and the page up to its loop
GradeCardFetch ==
    /\ gen_pc = "fetch" /\ gen_page = GradeCardPage
    /\ \E students_answer \in StoreAnswers :
       \E course_answers \in [1..Len(db_students) -> StoreAnswers] :
       \E now \in Clock :
          LET r == fetch_all_gradecard_data(db_students, students_answer, course_answers)
          IN  /\ conn' = close(conn)
              /\ store_fault' = r.fault
              /\ IF r.raised
                 THEN /\ gen_message' = Shown("error", "An error occurred")
                      /\ gen_pc' = "done"
                      /\ UNCHANGED << fetched, batch_timestamp >>
                 ELSE IF r.list = <<>>
                 THEN /\ gen_message' = Shown("warning", "No student data found for the given parameters.")
                      /\ gen_pc' = "done"
                      /\ UNCHANGED << fetched, batch_timestamp >>
                 ELSE /\ gen_message' = Shown("info", "Found students. Starting generation...")
                      /\ gen_pc' = "loop"
                      /\ fetched' = r.list
                      /\ batch_timestamp' = generate_batch_timestamp(now)
    /\ UNCHANGED << db_students, gen_page, done_students, output_files, gen_log >>
    /\ UNCHANGED << r2_keys, sync_vars, layout_vars, r2_vars, download_vars, classify_vars, photo_vars >>

\* one round of the page's loop: generate_certificate, then upload_grade_card
GradeCardStudent ==
    /\ gen_pc = "loop" /\ gen_page = GradeCardPage
    /\ LET item == fetched[done_students + 1]
           reg_no == item.student_info.reg_no
       IN  \E render \in RenderAnswers : \E answer \in UploadAnswers :
              LET output_path == generate_certificate(item, render)
                  success == output_path /\ answer = "ok"
                  r2_key == generate_file_key(gradecards, batch_timestamp, reg_no,
                                              item.student_info.name.value)
              IN  /\ output_files' = IF output_path THEN output_files \cup {reg_no}
                                     ELSE output_files
                  /\ bucket' = IF success THEN bucket \cup {r2_key} ELSE bucket
                  /\ r2_keys' = IF success THEN Append(r2_keys, r2_key) ELSE r2_keys
                  /\ gen_log' = Append(gen_log, [reg_no |-> reg_no, render |-> render,
                                                 written |-> output_path, uploaded |-> success])
    /\ done_students' = done_students + 1
    /\ IF done_students + 1 = Len(fetched)
       THEN /\ gen_pc' = "done"
            /\ gen_message' = Shown("success", "Successfully generated grade cards.")
       ELSE UNCHANGED << gen_pc, gen_message >>
    /\ UNCHANGED << db_students, gen_page, conn, fetched, batch_timestamp, store_fault >>
    /\ UNCHANGED << sync_vars, layout_vars, listing, latest, download_vars, classify_vars, photo_vars >>

\* "Generate Transcripts" clicked with a year of completion: get_db_connection
TranscriptConnect ==
    /\ gen_pc = "idle"
    /\ gen_page' = TranscriptPage
    /\ \E answer \in StoreAnswers :
          /\ conn' = get_db_connection(answer)
          /\ store_fault' = (answer = "Error")
          /\ IF get_db_connection(answer) = "none"
             THEN /\ gen_pc' = "done"
                  /\ gen_message' = Shown("error", "Database connection failed.")
             ELSE /\ gen_pc' = "fetch"
                  /\ UNCHANGED gen_message
    /\ UNCHANGED << db_students, fetched, done_students, batch_timestamp, output_files,
                    gen_log >>
    /\ UNCHANGED << r2_keys, sync_vars, layout_vars, r2_vars, download_vars, classify_vars, photo_vars >>

\* the page calls fetch_all_students_details with keywords the function does
\* not accept: the call raises, the page's except shows the error, and its
\* finally closes the connection
TranscriptFetch ==
    /\ gen_pc = "fetch" /\ gen_page = TranscriptPage
    /\ unexpected_keyword
    /\ gen_message' = Shown("error", "An error occurred")
    /\ conn' = close(conn)
    /\ gen_pc' = "done"
    /\ UNCHANGED << db_students, gen_page, fetched, done_students, batch_timestamp,
                    output_files, gen_log, store_fault >>
    /\ UNCHANGED << r2_keys, sync_vars, layout_vars, r2_vars, download_vars, classify_vars, photo_vars >>

\* python generate_transcript.py: get_db_connection
ScriptConnect ==
    /\ gen_pc = "idle"
    /\ gen_page' = TranscriptScript
    /\ \E answer \in StoreAnswers :
          /\ conn' = get_db_connection(answer)
          /\ store_fault' = (answer = "Error")
          /\ IF get_db_connection(answer) = "none"
             THEN /\ gen_pc' = "done"
                  /\ gen_message' = Shown("print", "Could not establish database connection.")
             ELSE /\ gen_pc' = "fetch"
                  /\ UNCHANGED gen_message
    /\ UNCHANGED << db_students, fetched, done_students, batch_timestamp, output_files,
                    gen_log >>
    /\ UNCHANGED << r2_keys, sync_vars, layout_vars, r2_vars, download_vars, classify_vars, photo_vars >>

\* fetch_all_students_details(conn): the rows, or [] after an Error
ScriptFetch ==
    /\ gen_pc = "fetch" /\ gen_page = TranscriptScript
    /\ \E answer \in StoreAnswers :
          LET students == IF answer = "ok"
                          THEN [k \in DOMAIN db_students |-> student_record_of(db_students[k])]
                          ELSE <<>>
          IN  /\ store_fault' = (answer = "Error")
              /\ IF students = <<>>
                 THEN /\ gen_message' = Shown("print", "No student records found in the database.")
                      /\ conn' = close(conn)
                      /\ gen_pc' = "done"
                      /\ UNCHANGED fetched
                 ELSE /\ fetched' = students
                      /\ gen_pc' = "loop"
                      /\ UNCHANGED << conn, gen_message >>
    /\ UNCHANGED << db_students, gen_page, done_students, batch_timestamp, output_files,
                    gen_log >>
    /\ UNCHANGED << r2_keys, sync_vars, layout_vars, r2_vars, download_vars, classify_vars, photo_vars >>

\* one round of the script's loop, which has no try around
\* process_single_student_transcript; the finally closes the connection
ScriptStudent ==
    /\ gen_pc = "loop" /\ gen_page = TranscriptScript
    /\ LET s_record == fetched[done_students + 1]
       IN  \E course_answer \in StoreAnswers : \E render \in RenderAnswers :
              LET pdf_path == process_single_student_transcript(s_record,
                                                                course_answer, render)
              IN  /\ output_files' = IF pdf_path = "written"
                                     THEN output_files \cup {s_record.regn_no}
                                     ELSE output_files
                  /\ gen_log' = Append(gen_log,
                                       [reg_no |-> s_record.regn_no,
                                        render |-> IF pdf_path = "raised" THEN "raised"
                                                   ELSE render,
                                        written |-> pdf_path = "written",
                                        uploaded |-> FALSE])
                  /\ store_fault' = (store_fault \/ course_answer = "Error")
                  /\ IF pdf_path = "raised"
                     THEN /\ gen_pc' = "done"
                          /\ conn' = close(conn)
                          /\ gen_message' = Shown("print", "Traceback")
                     ELSE IF done_students + 1 = Len(fetched)
                     THEN /\ gen_pc' = "done"
                          /\ conn' = close(conn)
                          /\ gen_message' = Shown("print", "All Transcripts Generation Complete!")
                     ELSE UNCHANGED << gen_pc, conn, gen_message >>
    /\ done_students' = done_students + 1
    /\ UNCHANGED << db_students, gen_page, fetched, batch_timestamp >>
    /\ UNCHANGED << r2_keys, sync_vars, layout_vars, r2_vars, download_vars, classify_vars, photo_vars >>

NextGenerate ==
    \/ GradeCardConnect
    \/ GradeCardFetch
    \/ GradeCardStudent
    \/ TranscriptConnect
    \/ TranscriptFetch
    \/ ScriptConnect
    \/ ScriptFetch
    \/ ScriptStudent

InitGenerate ==
    /\ store = EmptyStore
    /\ SessionsIdle
    /\ NoLayout
    /\ bucket = {}
    /\ NoListing
    /\ db_students \in StudentTables
    /\ NoRun
    /\ NoDownload
    /\ NoHeader
    /\ NoPhoto

SpecGenerate == InitGenerate /\ [][NextGenerate]_vars

\* the objects an earlier Grade Card Generator run, started at the clock
\* reading now, left in the bucket: one for each student it uploaded
EarlierRun(now) ==
    { {generate_file_key(gradecards, generate_batch_timestamp(now), g[1], g[2]) : g \in G} :
        G \in SUBSET Graduates \ {{}} }

\* SpecRuns: a generation run that starts after an earlier run has finished
InitRuns ==
    /\ store = EmptyStore
    /\ SessionsIdle
    /\ NoLayout
    /\ bucket \in UNION {EarlierRun(now) : now \in Clock}
    /\ NoListing
    /\ db_students \in StudentTables
    /\ NoRun
    /\ NoDownload
    /\ NoHeader
    /\ NoPhoto

SpecRuns == InitRuns /\ [][NextGenerate]_vars

(***************************************************************************)
(* Properties of the upsert clients and of the drivers, over the log.      *)
(***************************************************************************)
Pages == {CoursePage, StudentPage}

TableOf(pg) ==
    IF pg = CoursePage THEN STUDENT_COURSES_DETAILS_TABLE ELSE STUDENT_DETAILS_TABLE

\* the rows the store holds now under the record's composite key
KeyRows(pg, record) ==
    record_list(store[TableOf(pg)], filter_parts(pg, record, COMPOSITE_UNIQUE_KEYS(pg)))

\* every field of the record is in the row, with the record's value
Carries(row, record) == \A f \in DOMAIN record : f \in DOMAIN row /\ row[f] = record[f]

\* every declared key field is present in the record
HasKeys(pg, record) ==
    \A k \in DOMAIN COMPOSITE_UNIQUE_KEYS(pg) : COMPOSITE_UNIQUE_KEYS(pg)[k] \in DOMAIN record

\* the record the driver of the page builds from a row's dict
RecordOf(pg, d) == IF pg = CoursePage THEN course_record(d) ELSE student_record(d)

Finished(call) == call.ret # "pending"

\* the call sent its write and the store accepted it
Accepted(call) == call.writes = 1 /\ call.wres = "ok"

\* no row of the store was there before the first request
StartedEmpty ==
    \A t \in Tables : \A k \in DOMAIN store[t] : store[t][k].Id.n >= FirstFreeId

\* C1: with no other writer, two calls of update_or_create in a row with the
\* same record, on a store that held at most one row for the key before the
\* first, both carried out by the store, leave exactly one row for the key,
\* carrying the record's fields; the second call is an update (PATCH).
C1_TwiceLeavesOneRow ==
    \A p \in Sessions : \A k \in DOMAIN log[p] :
        ( /\ k > 1 /\ k = Len(log[p])
          /\ log[p][k - 1].record = log[p][k].record
          /\ log[p][k - 1].held <= 1
          /\ Accepted(log[p][k - 1]) /\ Accepted(log[p][k]) )
        => /\ log[p][k].write = "PATCH"
           /\ Len(KeyRows(page[p], log[p][k].record)) = 1
           /\ Carries(KeyRows(page[p], log[p][k].record)[1], log[p][k].record)

\* the same where the store answered both lookups with the matching rows
TwiceLeavesOneRowWhenLookupsAnswered ==
    \A p \in Sessions : \A k \in DOMAIN log[p] :
        ( /\ k > 1 /\ k = Len(log[p])
          /\ log[p][k - 1].record = log[p][k].record
          /\ log[p][k - 1].held <= 1
          /\ log[p][k - 1].lookup = "ok" /\ log[p][k].lookup = "ok"
          /\ Accepted(log[p][k - 1]) /\ Accepted(log[p][k]) )
        => /\ log[p][k].write = "PATCH"
           /\ Len(KeyRows(page[p], log[p][k].record)) = 1
           /\ Carries(KeyRows(page[p], log[p][k].record)[1], log[p][k].record)

\* a state where the lookups were answered and the second call updated
TwiceLeavesOneRowReached ==
    \E p \in Sessions : \E k \in DOMAIN log[p] :
        /\ k > 1 /\ k = Len(log[p])
        /\ log[p][k - 1].record = log[p][k].record
        /\ log[p][k - 1].held = 0
        /\ log[p][k - 1].lookup = "ok" /\ log[p][k].lookup = "ok"
        /\ Accepted(log[p][k - 1]) /\ Accepted(log[p][k])
        /\ log[p][k].write = "PATCH"

\* C2: on a store that started empty, after any sequence of upsert calls
\* made one after the other the store holds at most one row per composite
\* key; an accepted upsert whose key had no row leaves one row, and one
\* whose key had a row leaves that one row, with every field of the record
\* at the record's value.
C2_OneRowPerKey ==
    StartedEmpty =>
        /\ \A pg \in Pages : \A k \in DOMAIN store[TableOf(pg)] :
               Len(KeyRows(pg, store[TableOf(pg)][k])) = 1
        /\ \A p \in Sessions :
               (log[p] # <<>> /\ Accepted(Call(p)) /\ Call(p).held <= 1)
               => /\ Len(KeyRows(page[p], Call(p).record)) = 1
                  /\ Carries(KeyRows(page[p], Call(p).record)[1], Call(p).record)
                  /\ (Call(p).held = 1 <=> Call(p).write = "PATCH")

\* C3: two sessions upserting the same key, whose lookups were both answered
\* with no match and whose writes the store both accepted, have both created
\* (POST): the store holds two rows for the key.
C3_BothCreate ==
    \A p, q \in Sessions :
        ( /\ p # q /\ log[p] # <<>> /\ log[q] # <<>>
          /\ Call(p).filter = Call(q).filter
          /\ Call(p).lookup = "ok" /\ Call(p).nmatch = 0 /\ Accepted(Call(p))
          /\ Call(q).lookup = "ok" /\ Call(q).nmatch = 0 /\ Accepted(Call(q)) )
        => /\ Call(p).write = "POST" /\ Call(q).write = "POST"
           /\ Len(KeyRows(CoursePage, Call(p).record)) >= 2

\* the store had no row for the key, both lookups returned no match, both
\* sessions created, and the key now has two rows
C3_DuplicateReached ==
    \E p, q \in Sessions :
        /\ p # q /\ log[p] # <<>> /\ log[q] # <<>>
        /\ Call(p).filter = Call(q).filter
        /\ Call(p).held = 0 /\ Call(q).held = 0
        /\ Call(p).lookup = "ok" /\ Call(p).nmatch = 0 /\ Accepted(Call(p))
        /\ Call(q).lookup = "ok" /\ Call(q).nmatch = 0 /\ Accepted(Call(q))
        /\ StartedEmpty
        /\ Len(KeyRows(CoursePage, Call(p).record)) = 2

\* C4: a record that lacks a declared key field causes no request, and the
\* driver counts it neither as success nor as failure: the two counts add
\* up to the number of finished records that have all their key fields.
C4_SkipNotCounted ==
    \A p \in Sessions :
        page[p] = CoursePage =>
            /\ \A k \in DOMAIN log[p] :
                   ~HasKeys(CoursePage, log[p][k].record)
                   => log[p][k].gets = 0 /\ log[p][k].writes = 0
            /\ success_count[p] + failure_count[p]
                 = Cardinality({k \in DOMAIN log[p] :
                                   /\ Finished(log[p][k])
                                   /\ HasKeys(CoursePage, log[p][k].record)})

\* a record without a key field never causes a request (this half holds)
NoRequestWithoutKeys ==
    \A p \in Sessions : \A k \in DOMAIN log[p] :
        ~HasKeys(page[p], log[p][k].record) => log[p][k].gets = 0 /\ log[p][k].writes = 0

\* C5 (as the code has it): the write is a PATCH exactly when the lookup was
\* answered with status 200 and a list of one or more rows, and it goes to
\* the first row of the list; every other write is a POST.
C5_PatchFirstMatch ==
    \A p \in Sessions : \A k \in DOMAIN log[p] :
        log[p][k].writes = 1 =>
            /\ log[p][k].write \in {"PATCH", "POST"}
            /\ log[p][k].write = "PATCH"
                 <=> (log[p][k].lookup = "ok" /\ log[p][k].nmatch >= 1)
            /\ log[p][k].write = "PATCH" => log[p][k].record_id = log[p][k].first

\* a lookup answered with two or more rows, followed by an accepted PATCH
C5_PatchAmongSeveral ==
    \E p \in Sessions : \E k \in DOMAIN log[p] :
        /\ log[p][k].lookup = "ok" /\ log[p][k].nmatch >= 2
        /\ Accepted(log[p][k]) /\ log[p][k].write = "PATCH"

\* C5 as stated: the write is a PATCH only when exactly one row matches, and
\* a POST in every other case, two or more matching rows included.
C5_PatchOnlyOnOneMatch ==
    \A p \in Sessions : \A k \in DOMAIN log[p] :
        log[p][k].writes = 1 =>
            (log[p][k].write = "PATCH"
               <=> (log[p][k].lookup = "ok" /\ log[p][k].nmatch = 1))

\* C6: an error on a row never leaves the per-row loop: a run that has
\* ended went through every row and shows its completion message.
C6_RunCompletes ==
    \A p \in Sessions :
        (pc[p] = "done" /\ total_records[p] > 0)
        => /\ i[p] = total_records[p]
           /\ Len(log[p]) = total_records[p]
           /\ message[p] \in {"Sync Complete", "Sync Process Finished."}

\* C7: a record whose lookup failed (a status other than 200, or a body that
\* is not JSON) gets no write.
C7_FailedLookupNoWrite ==
    \A p \in Sessions : \A k \in DOMAIN log[p] :
        log[p][k].lookup \in {"http_err", "not_json"} => log[p][k].writes = 0

C9_KeyTypes ==
    \A p \in Sessions : \A k \in DOMAIN log[p] :
        log[p][k].gets > 0 =>
            LET record == log[p][k].record
                filter == log[p][k].filter
            IN  /\ record["REGN_NO"].t = "str"
                /\ record["YEAR_FLAG"].t = "int"
                /\ page[p] = CoursePage => record["SUBJECT_CODE"].t = "str"
                /\ Len(filter) = Len(COMPOSITE_UNIQUE_KEYS(page[p]))
                /\ \A m \in DOMAIN filter :
                       /\ filter[m].key = COMPOSITE_UNIQUE_KEYS(page[p])[m]
                       /\ filter[m].value =
                            (IF filter[m].key = "YEAR_FLAG"
                             THEN ToString(record[filter[m].key].n)
                             ELSE record[filter[m].key].s)

\* a registration number that reached the driver as the float 7.0, sent as
\* the str "7" in the filter and in an accepted body
C9_NumericSourceSent ==
    \E p \in Sessions : \E k \in DOMAIN log[p] :
        /\ rows[p][k]["REGN_NO"] = PyFloat(7, 0)
        /\ log[p][k].record["REGN_NO"] = PyStr("7")
        /\ log[p][k].filter[1].value = "7"
        /\ Accepted(log[p][k])

(***************************************************************************)
(* Properties of the reshaper, over the upload and the rows of the loop.   *)
(***************************************************************************)
\* the slots of the wide table, from its columns
SlotsOf(df) == {k \in 1..Len(df.columns) : SUBn(k) \in Range(df.columns)}

\* the (row, slot) pairs of the table in row order, slots ascending
AllPairs(df) ==
    LET n == Cardinality(SlotsOf(df))
    IN  [m \in 1..(Len(df.data) * n) |-> <<((m - 1) \div n) + 1, ((m - 1) % n) + 1>>]

\* those whose slot has a subject name or a subject code
FilledPairs(df) ==
    SelectSeq(AllPairs(df),
              LAMBDA rk : \/ ~isna(Cell(df.columns, df.data[rk[1]], SUBn(rk[2])))
                          \/ ~isna(Cell(df.columns, df.data[rk[1]], SUBnNM(rk[2]))))

\* equal as numbers where they are numbers (101 and 101.0), equal otherwise
SameValue(a, b) == AsFloat(a) = AsFloat(b)

\* the dict carries the row's REGN_NO and the slot's own values
RowOfPair(df, d, rk) ==
    LET row == df.data[rk[1]]
    IN  /\ SameValue(get(d, "REGN_NO"), Cell(df.columns, row, c_REGN_NO))
        /\ SameValue(get(d, "SUBJECT_CODE"), Cell(df.columns, row, SUBn(rk[2])))
        /\ SameValue(get(d, "SUBJECT_NAME"), Cell(df.columns, row, SUBnNM(rk[2])))
        /\ SameValue(get(d, "Marks"), Cell(df.columns, row, SUBn_(rk[2], c_TOT)))
        /\ SameValue(get(d, "Grade"), Cell(df.columns, row, SUBn_(rk[2], c_GRADE)))

\* the rows of the loop are the filled pairs, one row each
OneRowPerFilledPair(df, ds) ==
    /\ Len(ds) = Len(FilledPairs(df))
    /\ \A m \in DOMAIN ds : RowOfPair(df, ds[m], FilledPairs(df)[m])

\* the columns that belong to no slot
IdentifierColumns(df) ==
    {c \in Range(df.columns) :
        \A k \in SlotsOf(df) :
            c \notin {SUBn(k), SUBnNM(k), SUBn_(k, c_TOT), SUBn_(k, c_GRADE)}}

\* two rows of the table agree on every identifier column
SameIdentifiers(df) ==
    \E a, b \in DOMAIN df.data :
        a # b /\ \A c \in IdentifierColumns(df) :
                    Cell(df.columns, df.data[a], c) = Cell(df.columns, df.data[b], c)

TallyReported(p) == message[p] = "Sync Complete"

\* the rows of the run whose write the store accepted
AcceptedRows(p) == {k \in DOMAIN log[p] : Accepted(log[p][k])}

\* the run of the session has ended
RunEnded(p) == pc[p] = "done" /\ page[p] \in Pages

\* C11: when a run over n rows has ended, on either page, a final tally is
\* reported, its two counts add up to n, and its success count is the number
\* of rows whose write the store accepted.
C11_TallyAccountsEveryRow ==
    \A p \in Sessions :
        (RunEnded(p) /\ total_records[p] > 0)
        => /\ TallyReported(p)
           /\ success_count[p] + failure_count[p] = total_records[p]
           /\ success_count[p] = Cardinality(AcceptedRows(p))

\* the same on the Course Details page alone (holds)
CourseTallyAccountsEveryRow ==
    \A p \in Sessions :
        (RunEnded(p) /\ page[p] = CoursePage /\ total_records[p] > 0)
        => /\ TallyReported(p)
           /\ success_count[p] + failure_count[p] = total_records[p]
           /\ success_count[p] = Cardinality(AcceptedRows(p))

\* the run got past its validation and its reshape, and had no row to loop on
ZeroRows(p) ==
    /\ RunEnded(p) /\ total_records[p] = 0
    /\ message[p] \notin {"Error during data transformation",
                          "Error: consolidated_grade_card_flag", "Error reading CSV"}

\* C12: a run over zero rows sends no request, raises no error, and ends
\* with the report that there was nothing to process.
C12_ZeroRowsReported ==
    \A p \in Sessions :
        ZeroRows(p) => /\ log[p] = <<>> /\ store \in InitialStores
                       /\ message[p] = "No records to process"

\* a run over zero rows sends no request and changes nothing (holds)
ZeroRowsNoRequest ==
    \A p \in Sessions : ZeroRows(p) => log[p] = <<>> /\ store \in InitialStores

(***************************************************************************)
(* Properties of the double-column layout.                                 *)
(***************************************************************************)
\* the rows of a list without the number the layout gives them
Unnumbered(courses) ==
    [k \in DOMAIN courses |->
        [f \in DOMAIN courses[k] \ {"sl_no"} |-> courses[k][f]]]

Odd(n) == n % 2 = 1

\* C18: the two columns differ in length by at most one, and the left column
\* is never the shorter one: with an odd number of rows it holds one more.
C18_LeftLargerHalf ==
    layout_pc = "split"
    => LET n == Len(course_data)
           l == Len(left_courses)
           r == Len(right_courses)
       IN  /\ l + r = n
           /\ l >= r /\ l - r <= 1
           /\ Odd(n) => l = r + 1

\* a list of three rows has been split into two and one
C18_OddSplitReached ==
    /\ layout_pc = "split"
    /\ Len(course_data) = 3 /\ Len(left_courses) = 2 /\ Len(right_courses) = 1

\* C18 as stated: the left column holds the smaller half
C18_LeftSmallerHalf ==
    layout_pc = "split"
    => /\ Len(left_courses) <= Len(right_courses)
       /\ Len(right_courses) - Len(left_courses) <= 1

\* C19: the left column is the first ceil(n/2) rows and the right column the
\* remaining floor(n/2); left followed by right is the list in its order,
\* and the rows are numbered sl_no = 1..n in that order.
C19_SplitKeepsOrder ==
    [][PrepareColumns =>
        LET n == Len(course_data)
            both == left_courses' \o right_courses'
        IN  /\ Len(left_courses') = (n + 1) \div 2
            /\ Len(right_courses') = n \div 2
            /\ Len(both) = n
            /\ Unnumbered(both) = Unnumbered(course_data)
            /\ \A k \in 1..n : both[k]["sl_no"] = k
            /\ course_data' = both]_vars

\* four rows, one of them carrying an old number, split two and two
C19_RenumberedReached ==
    /\ layout_pc = "split"
    /\ Len(left_courses) = 2 /\ Len(right_courses) = 2
    /\ Unnumbered(course_data)[4] = [Course_Code |-> "PH102", Grade |-> "B+"]
    /\ Unnumbered(course_data)[1] = [Course_Code |-> "MA101", Grade |-> "A"]
    /\ right_courses[2]["sl_no"] = 4

(***************************************************************************)
(* Properties of the batch listings.                                       *)
(***************************************************************************)
\* the batch ids of the generation runs that have an object under kind/
BatchesOf(kind) ==
    { generate_batch_timestamp(now) :
        now \in { t \in Clock :
                    \E g \in Graduates :
                        generate_file_key(kind, generate_batch_timestamp(t), g[1], g[2])
                            \in bucket } }

\* the clock reading a batch id was made from
StartOf(batch) == CHOOSE now \in Clock : generate_batch_timestamp(now) = batch

\* run a started after run b
Later(a, b) == a.day > b.day \/ (a.day = b.day /\ a.second > b.second)

\* every batch of the kind once, the most recent first
AllBatchesRecentFirst(kind, folders) ==
    /\ Range(folders) = BatchesOf(kind)
    /\ \A j, k \in DOMAIN folders :
          j < k => /\ str_less(folders[k], folders[j])
                   /\ Later(StartOf(folders[j]), StartOf(folders[k]))

\* the first element of the list, None exactly when no batch exists
GreatestOrNone(kind, folder) ==
    /\ folder.is_none <=> BatchesOf(kind) = {}
    /\ ~folder.is_none
       => /\ folder.value \in BatchesOf(kind)
          /\ \A b \in BatchesOf(kind) \ {folder.value} : str_less(b, folder.value)
          /\ folder.value = list_batch_folders(kind, "ok")[1]

RunDone == gen_pc = "done"

\* the row has a name, a CGPA and at least one course-mark row
ValidData(s) == ~s.CNAME.is_none /\ ~s.CGPA.is_none /\ s.courses > 0

\* the rendering of the student's own document failed
OwnFailure(regn_no) ==
    \E k \in DOMAIN gen_log : gen_log[k].reg_no = regn_no /\ gen_log[k].render # "ok"

\* the keys of the bucket that belong to the student
KeysOf(s) ==
    {key \in bucket :
        \E kind \in FolderTypes :
            startswith(key, kind \o <<"/">> \o batch_timestamp \o <<"/">>
                                 \o replace(s.REGN_NO, "/", <<"_">>) \o <<"_">>)}

\* C13: a failure of one student stays with that student: at the end of a
\* run whose connection and queries were answered, every student with valid
\* data whose own rendering did not fail has an output file.
C13_FailureConfined ==
    (RunDone /\ ~store_fault)
    => \A k \in DOMAIN db_students :
          (ValidData(db_students[k]) /\ ~OwnFailure(db_students[k].REGN_NO))
          => db_students[k].REGN_NO \in output_files

\* a failure inside generate_certificate is confined: when the grade-card
\* loop has run to its end, every fetched student with a name whose own
\* rendering did not fail has an output file (holds)
CertificateFailureConfined ==
    (RunDone /\ gen_page = GradeCardPage /\ gen_message.kind = "success")
    => \A k \in DOMAIN fetched :
          LET info == fetched[k].student_info
          IN  (~info.name.is_none /\ ~OwnFailure(info.reg_no))
              => info.reg_no \in output_files

\* C14: a student without course-mark rows gets no output file and nothing
\* of theirs is uploaded, on every page.
C14_NoMarksSkipped ==
    \A k \in DOMAIN db_students :
        db_students[k].courses = 0
        => /\ db_students[k].REGN_NO \notin output_files
           /\ KeysOf(db_students[k]) = {}

\* the transcript renderer skips a student without course-mark rows (holds)
TranscriptNoMarksSkipped ==
    gen_page = TranscriptScript
    => \A k \in DOMAIN db_students :
          db_students[k].courses = 0 => db_students[k].REGN_NO \notin output_files

NoData(m) ==
    /\ m.kind = "warning"
    /\ m.text = "No student data found for the given parameters."

\* C15: when the filters match no student and the store answers, the action
\* of either page writes no file, uploads nothing and ends with the
\* "no data" warning.
C15_NoStudentsWarning ==
    (RunDone /\ db_students = <<>> /\ ~store_fault
        /\ gen_page \in {GradeCardPage, TranscriptPage})
    => /\ output_files = {} /\ bucket = {}
       /\ gen_message.kind = "warning"

\* C16: when the connection cannot be established the action of either page
\* ends with an error message, not with "no data", and writes no file.
C16_ConnectionFailureReported ==
    (RunDone /\ conn = "none" /\ gen_page \in {GradeCardPage, TranscriptPage})
    => /\ gen_message.kind = "error"
       /\ ~NoData(gen_message)
       /\ output_files = {} /\ bucket = {}

\* C17: when a run has ended, on any of its exits, its connection is not
\* open: it was never established, or it has been closed.
C17_ConnectionClosed == RunDone => conn \in {"none", "closed"}

\* a run of the Grade Card Generator that ended by an exception other than
\* a store error, with its connection closed
C17_ClosedAfterException ==
    /\ RunDone /\ gen_page = GradeCardPage
    /\ gen_message = Shown("error", "An error occurred")
    /\ conn = "closed" /\ ~store_fault

(***************************************************************************)
(* Properties of "Download Latest Batch".                                  *)
(***************************************************************************)
\* the batch the click resolved, and the objects listed under its prefix
ResolvedBatch == get_latest_batch_folder(download.folder_type, download.latest_answer)
ListedFiles ==
    list_files(batch_prefix(download.folder_type, ResolvedBatch.value),
               download.list_answer)

\* C21: download_batch_as_zip tells two empty outcomes apart.  When the bucket
\* holds no batch folder of the kind it returns (None, "", 0) and the page
\* says that no batch folders were found; when a batch id is resolved but no
\* object is listed under its prefix it returns (None, batch id, 0) with a
\* non-empty batch id and the page says that the batch holds no files.
C21_TwoEmptyOutcomes ==
    download.clicked =>
        /\ BatchesOf(download.folder_type) = {} =>
               /\ download.result = [zip_data |-> NoneZip, batch_ts |-> <<>>,
                                     file_count |-> 0]
               /\ download.shown = "No batch folders found in R2 storage."
        /\ (~ResolvedBatch.is_none /\ ListedFiles = {}) =>
               /\ download.result = [zip_data |-> NoneZip,
                                     batch_ts |-> ResolvedBatch.value,
                                     file_count |-> 0]
               /\ download.result.batch_ts # <<>>
               /\ download.shown = "No files found in batch"

\* a batch was resolved and the listing of its prefix came back empty
C21_EmptyBatchReached ==
    /\ download.clicked
    /\ ~ResolvedBatch.is_none
    /\ ListedFiles = {}
    /\ download.result.batch_ts \in BatchesOf(download.folder_type)

\* C30: the file count download_batch_as_zip returns equals the number of
\* entries written into the archive it returns, also when the content of a
\* listed object could not be fetched or was empty.
C30_CountMatchesArchive ==
    (download.clicked /\ ~download.result.zip_data.is_none) =>
        download.result.file_count = Cardinality(download.result.zip_data.entries)

\* the count is the number of entries when every listed object gave its bytes
CountMatchesWhenAllFetched ==
    (/\ download.clicked
     /\ ~download.result.zip_data.is_none
     /\ \A f \in ListedFiles : download.content_answers[f] = "bytes") =>
        download.result.file_count = Cardinality(download.result.zip_data.entries)

(***************************************************************************)
(* Properties of the batch of a generation run.                            *)
(***************************************************************************)
\* the folder kind of the uploads of a page
KindOf(pg) == IF pg = GradeCardPage THEN gradecards ELSE transcripts

\* the batch folder of an object key
BatchOf(key) == split(key, "/")[2]

\* C22: in one generation run the batch id is generated once, before the
\* per-student loop, and is not changed while the loop runs; every key the
\* run has uploaded is '<kind>/<that batch id>/<file>' with no further '/'.
C22_OneBatchPerRun ==
    /\ [](\A k \in DOMAIN r2_keys :
            /\ startswith(r2_keys[k], batch_prefix(KindOf(gen_page), batch_timestamp))
            /\ Len(split(r2_keys[k], "/")) = 3
            /\ r2_keys[k] \in bucket)
    /\ [][gen_pc = "loop" => batch_timestamp' = batch_timestamp]_vars

\* a run has uploaded the files of two students
C22_TwoUploadsReached ==
    /\ gen_pc = "done"
    /\ Len(r2_keys) = 2
    /\ r2_keys[1] # r2_keys[2]
    /\ BatchOf(r2_keys[1]) = batch_timestamp

\* C23: a batch is immutable once its run has finished: no upload of a later
\* run of the same kind puts an object into the batch folder of an earlier
\* run, neither a new object nor one that replaces an object of that run.
C23_BatchImmutable ==
    [][\A k \in (DOMAIN r2_keys') \ (DOMAIN r2_keys) :
          \A earlier \in bucket \ Range(r2_keys) :
              BatchOf(earlier) # BatchOf(r2_keys'[k])]_vars

\* a later run whose clock reading differs from the earlier run's leaves the
\* earlier batch as it was
ImmutableForDistinctIds ==
    [][\A k \in (DOMAIN r2_keys') \ (DOMAIN r2_keys) :
          \A earlier \in bucket \ Range(r2_keys) :
              BatchOf(earlier) # batch_timestamp
                  => BatchOf(earlier) # BatchOf(r2_keys'[k])]_vars

(***************************************************************************)
(* Properties of the student-details records.                              *)
(***************************************************************************)
\* the record carries consolidated_grade_card_flag = 1
FlaggedConsolidated(record) ==
    LET v == get(record, "consolidated_grade_card_flag")
    IN  ~isna(v) /\ v.t \in {"int", "float"} /\ v.n = 1 /\ v.d = 0

\* C24: every student-details record written to the store with
\* consolidated_grade_card_flag = 1 has YEAR_FLAG = 0, on either tab and
\* whatever the uploaded file holds in its own YEAR_FLAG and
\* consolidated_grade_card_flag columns.
C24_ConsolidatedYearZero ==
    \A p \in Sessions : \A k \in DOMAIN log[p] :
        (/\ page[p] = StudentPage
         /\ log[p][k].writes >= 1
         /\ FlaggedConsolidated(log[p][k].record))
            => get(log[p][k].record, "YEAR_FLAG") = PyInt(0)

\* the YEAR_FLAG column of the uploaded file never reaches the store: the
\* record carries the year flag of the tab
UploadedYearFlagReplaced ==
    \A p \in Sessions : \A k \in DOMAIN log[p] :
        (page[p] = StudentPage /\ upload[p] = StudentConsolidated)
            => get(log[p][k].record, "YEAR_FLAG") \in {PyInt(0)} \cup {PyInt(y) : y \in year_flag_options}

(***************************************************************************)
(* Properties of the confirmation gate.                                    *)
(***************************************************************************)
\* the step starts a sync of session p
StartsSync(p) == pc[p] = "idle" /\ pc'[p] # "idle"

\* the store holds rows for the parameters the sync of p is started with
HoldsRowsFor(p) ==
    existing_data(params'[p].tab, params'[p].year_flag, params'[p].admission_year, "ok")

\* "Proceed Anyway" has been pressed in the session for those parameters
Confirmed(p) == params'[p] \in session_state[p]

\* C25: a sync is never started for parameters for which the store already
\* holds rows unless "Proceed Anyway" was pressed for them in the session,
\* however the existence check was answered.
C25_ConfirmationGate ==
    [][\A p \in Sessions : (StartsSync(p) /\ HoldsRowsFor(p)) => Confirmed(p)]_vars

\* the gate holds whenever the existence check was answered with status 200
GateWhenCheckAnswered ==
    [][\A p \in Sessions :
          (StartsSync(p) /\ HoldsRowsFor(p) /\ check_response'[p] = "ok")
              => Confirmed(p)]_vars

\* a sync over existing rows was started after "Proceed Anyway"
ConfirmedStartReached ==
    \E p \in Sessions :
        /\ pc[p] # "idle"
        /\ data_exists[p]
        /\ params[p] \in session_state[p]

(***************************************************************************)
(* Properties of the progress bar.                                         *)
(***************************************************************************)
\* the fractions reported so far lie in (0, 1] and never decrease, and the
\* last one is 1 when the loop has gone through its last row
ProgressInOrder(p) ==
    /\ \A k \in DOMAIN progress[p] :
          0 < progress[p][k].num /\ progress[p][k].num <= progress[p][k].den
    /\ \A k \in 1..(Len(progress[p]) - 1) :
          progress[p][k].num * progress[p][k + 1].den
              <= progress[p][k + 1].num * progress[p][k].den
    /\ (pc[p] = "done" /\ total_records[p] > 0 /\ i[p] = total_records[p]) =>
          /\ progress[p] # <<>>
          /\ progress[p][Len(progress[p])].num = progress[p][Len(progress[p])].den

\* C26: the progress fraction a sync driver reports for each row is in
\* (0, 1], never decreases from one row to the next and is 1 for the last row,
\* also when rows with missing key fields were dropped before the loop.
C26_ProgressFraction == \A p \in Sessions : ProgressInOrder(p)

\* process_and_sync reports such fractions
CourseProgressFraction ==
    \A p \in Sessions : page[p] = CoursePage => ProgressInOrder(p)

\* so does process_student_details_sync when no row was dropped
StudentProgressWithoutDrop ==
    \A p \in Sessions :
        (/\ page[p] = StudentPage
         /\ \A r \in DOMAIN upload[p].data :
               ~isna(Cell(upload[p].columns, upload[p].data[r], c_REGN_NO)))
            => ProgressInOrder(p)

(***************************************************************************)
(* Properties of the column classification.                                *)
(***************************************************************************)
\* the digits that follow the prefix SUB
SubjectDigits(col) ==
    LET ends == {k \in 3..Len(col) : \A m \in 4..k : col[m] \in DigitChars}
        last == CHOOSE k \in ends : \A m \in ends : m <= k
    IN  SubSeq(col, 4, last)

\* what follows those digits
AfterDigits(col) == SubSeq(col, 4 + Len(SubjectDigits(col)), Len(col))

\* the column follows the subject convention: SUB<digits>, SUB<digits>NM or
\* SUB<digits>_<METRIC>
FollowsConvention(col) ==
    /\ startswith(col, c_SUB)
    /\ SubjectDigits(col) # <<>>
    /\ \/ AfterDigits(col) = <<>>
       \/ AfterDigits(col) = c_NM
       \/ Len(AfterDigits(col)) > 1 /\ Head(AfterDigits(col)) = "_"

\* the canonical name of a column that follows the convention
CanonicalName(col) ==
    IF AfterDigits(col) = <<>> THEN c_SUBJECT_ACTUAL_CODE \o <<"_">> \o SubjectDigits(col)
    ELSE IF AfterDigits(col) = c_NM THEN c_SUBJECT_NAME \o <<"_">> \o SubjectDigits(col)
    ELSE Tail(AfterDigits(col)) \o <<"_">> \o SubjectDigits(col)

\* C27: Step 1 renames exactly the columns that follow the subject
\* convention, each to its canonical name; every other column, also one that
\* starts with SUB and holds an underscore but no digits after the prefix,
\* keeps its name.
C27_OnlyConventionRenamed ==
    \A k \in DOMAIN renamed_columns :
        renamed_columns[k] = IF FollowsConvention(csv_columns[k])
                             THEN CanonicalName(csv_columns[k])
                             ELSE csv_columns[k]

\* the columns that follow the convention get their canonical names
ConventionRenamed ==
    \A k \in DOMAIN renamed_columns :
        FollowsConvention(csv_columns[k])
            => renamed_columns[k] = CanonicalName(csv_columns[k])

\* a column that does not start with SUB, or holds no underscore, keeps its name
OthersKept ==
    \A k \in DOMAIN renamed_columns :
        (~FollowsConvention(csv_columns[k])
         /\ (~startswith(csv_columns[k], c_SUB) \/ FirstUnderscore(csv_columns[k]) = 0))
            => renamed_columns[k] = csv_columns[k]

(***************************************************************************)
(* Properties of identifier columns named like a metric stub.              *)
(***************************************************************************)
\* the identifier columns of the uploaded file that are named like a stub
StubNamedIdentifiers(df) == {c \in Range(df.columns) : c \in Range(stubnames)}

\* the values the record holds, under whatever key
ValuesOf(record) == {record[key] : key \in DOMAIN record}

\* the record of slot k of input row r holds the row's value of identifier
\* column c under the name c, and the slot's value of metric c as well
KeepsBoth(record, df, r, k, c) ==
    /\ get(record, Concat(c)) = Cell(df.columns, df.data[r], c)
    /\ Cell(df.columns, df.data[r], SUBn_(k, c)) \in ValuesOf(record)

\* C28: when an identifier column of the input is named like a declared
\* metric stub, each record sent to the store carries the identifier's value
\* under that name and the slot's own metric value, neither hiding the other.
C28_IdentifierAndMetricKept ==
    \A p \in Sessions :
        (page[p] = CoursePage /\ upload[p] = UploadRowResult) =>
            \A m \in DOMAIN rows[p] :
                \A c \in StubNamedIdentifiers(upload[p]) :
                    KeepsBoth(rows[p][m], upload[p], 1, m, c)

\* the file is reshaped: wide_to_long accepts it after Step 4, one row is fed
\* to the loop, and that row has a RESULT
RowResultReshaped ==
    \A p \in Sessions :
        (page[p] = CoursePage /\ upload[p] = UploadRowResult) =>
            /\ Len(rows[p]) = 1
            /\ "RESULT" \in DOMAIN rows[p][1]
            /\ "RESULT_GLOBAL" \notin DOMAIN rows[p][1]

(***************************************************************************)
(* Properties of the photo placed on a document.                           *)
(***************************************************************************)
\* the URL source yields a usable image
UrlUsable ==
    photo.table_answer = "url" /\ photo.get_answer = "200" /\ photo.url_content = "good"

\* the local photo file exists and is usable
LocalUsable == photo.local_file = "good"

\* the image the fallback order asks for
PhotoByOrder ==
    IF UrlUsable THEN "url" ELSE IF LocalUsable THEN "local" ELSE "placeholder"

\* C29: the photo placed on a document is the URL image if that is usable,
\* otherwise the local photo file if it exists and is usable, otherwise the
\* placeholder, on the grade-card renderer and on the transcript renderer.
C29_PhotoFallbackOrder ==
    photo.renderer # "" => photo.placed = PhotoByOrder

\* the grade-card renderer follows the order whenever the image fetched by
\* URL is not one that opens and then fails to load
GradeCardOrderUnlessUrlImageBreaks ==
    (/\ photo.renderer = "grade_card"
     /\ ~(photo.table_answer = "url" /\ photo.get_answer = "200"
           /\ photo.url_content = "truncated"))
        => photo.placed = PhotoByOrder

\* the transcript renderer never places the URL image
TranscriptPlacesNoUrlImage ==
    photo.renderer = "transcript" => photo.placed # "url"

=============================================================================
